---- MODULE Spec2Model ----
(***************************************************************************)
(* The ontology introspection engine of ait (src/src/ait/web.py) over the  *)
(* local triple store (src/src/ait/store.py).                              *)
(*                                                                         *)
(* A Python str is a tuple of one-character strings, so that namespaces,   *)
(* local names, lowercasing and string order are computed, not assumed.    *)
(* An RDF term is a record [k, v]: k is "iri", "lit" or "bnode".           *)
(***************************************************************************)
EXTENDS Integers, Sequences, FiniteSets, TLC

VARIABLES store, response

vars == <<store, response>>

----------------------------------------------------------------------------
(* Python str: order, lower(), rfind, startswith, split, join, rstrip *)

\* the characters used, in code point order
Alphabet ==
  <<" ", "\"", "#", "-", ".", "/", "0", "1", "2", "3", "4", "5", "6", "7", "8", "9", ":",
    "<", ">",
    "A", "B", "C", "D", "E", "F", "G", "H", "I", "J", "K", "L", "M", "N", "O",
    "P", "Q", "R", "S", "T", "U", "V", "W", "X", "Y", "Z", "_",
    "a", "b", "c", "d", "e", "f", "g", "h", "i", "j", "k", "l", "m", "n", "o",
    "p", "q", "r", "s", "t", "u", "v", "w", "x", "y", "z">>

CharSet == {Alphabet[i] : i \in DOMAIN Alphabet}

Ord == [c \in CharSet |-> CHOOSE i \in DOMAIN Alphabet : Alphabet[i] = c]

UpperChars == {c \in CharSet : Ord[c] >= Ord["A"] /\ Ord[c] <= Ord["Z"]}

\* str.lower() on one character
LowerChar == [c \in CharSet |->
  IF c \in UpperChars THEN Alphabet[Ord[c] - Ord["A"] + Ord["a"]] ELSE c]

\* str.lower()
Lower(s) == [i \in DOMAIN s |-> LowerChar[s[i]]]

MinOf(S) == CHOOSE x \in S : \A y \in S : x <= y

MaxOf(S) == CHOOSE x \in S : \A y \in S : x >= y

\* a < b on Python str: lexicographic by code point
StrLess(a, b) ==
  LET n == IF Len(a) < Len(b) THEN Len(a) ELSE Len(b)
      d == {i \in 1..n : a[i] # b[i]}
  IN  IF d = {} THEN Len(a) < Len(b)
      ELSE Ord[a[MinOf(d)]] < Ord[b[MinOf(d)]]

\* str.rfind(c) + 1: the 1-based index of the last c, 0 when there is none
RFind(s, c) ==
  LET hits == {i \in DOMAIN s : s[i] = c}
  IN  IF hits = {} THEN 0 ELSE MaxOf(hits)

\* str.startswith(p)
StartsWith(s, p) == Len(p) <= Len(s) /\ SubSeq(s, 1, Len(p)) = p

\* str.rstrip(c)
RECURSIVE RStrip(_, _)
RStrip(s, c) ==
  IF s # <<>> /\ s[Len(s)] = c THEN RStrip(SubSeq(s, 1, Len(s) - 1), c) ELSE s

\* str.split(c): always at least one part
RECURSIVE Split(_, _)
Split(s, c) ==
  LET hits == {i \in DOMAIN s : s[i] = c}
  IN  IF hits = {} THEN <<s>>
      ELSE <<SubSeq(s, 1, MinOf(hits) - 1)>>
             \o Split(SubSeq(s, MinOf(hits) + 1, Len(s)), c)

\* c.join(parts)
RECURSIVE Join(_, _)
Join(parts, c) ==
  IF parts = <<>> THEN <<>>
  ELSE IF Len(parts) = 1 THEN parts[1]
  ELSE parts[1] \o <<c>> \o Join(Tail(parts), c)

Range(f) == {f[i] : i \in DOMAIN f}

\* every order in which the elements of a finite set can be listed
RECURSIVE Orders(_)
Orders(S) ==
  IF S = {} THEN {<<>>}
  ELSE UNION {{<<x>> \o s : s \in Orders(S \ {x})} : x \in S}

\* sorted(items, key=...): stable, ascending; keys[i] is the key of items[i]
RECURSIVE SortedBy(_, _)
SortedBy(items, keys) ==
  IF items = <<>> THEN [items |-> <<>>, keys |-> <<>>]
  ELSE LET n == Len(items)
           k == keys[n]
           \* the last element goes behind every element whose key is <= its key
           Place(rest) ==
             LET p == Cardinality({i \in DOMAIN rest.keys : ~StrLess(k, rest.keys[i])})
             IN  [items |-> SubSeq(rest.items, 1, p) \o <<items[n]>>
                              \o SubSeq(rest.items, p + 1, n - 1),
                  keys  |-> SubSeq(rest.keys, 1, p) \o <<k>>
                              \o SubSeq(rest.keys, p + 1, n - 1)]
       \* the sorted prefix is computed once
       IN  CHOOSE sorted \in
             {Place(rest) :
                rest \in {SortedBy(SubSeq(items, 1, n - 1), SubSeq(keys, 1, n - 1))}} : TRUE

Sorted(items, keys) == SortedBy(items, keys).items

----------------------------------------------------------------------------
(* Constants of web.py *)

\* urn:ait:meta
AIT_META_GRAPH == <<"u","r","n",":","a","i","t",":","m","e","t","a">>
\* http://www.w3.org/2002/07/owl#Thing
OWL_THING == <<"h","t","t","p",":","/","/","w","w","w",".","w","3",".","o","r","g","/","2","0","0","2","/","0","7","/","o","w","l","#","T","h","i","n","g">>
\* http://www.w3.org/2002/07/owl#Nothing
OWL_NOTHING == <<"h","t","t","p",":","/","/","w","w","w",".","w","3",".","o","r","g","/","2","0","0","2","/","0","7","/","o","w","l","#","N","o","t","h","i","n","g">>
\* http://www.w3.org/2000/01/rdf-schema#Resource
RDFS_RESOURCE == <<"h","t","t","p",":","/","/","w","w","w",".","w","3",".","o","r","g","/","2","0","0","0","/","0","1","/","r","d","f","-","s","c","h","e","m","a","#","R","e","s","o","u","r","c","e">>
\* http://www.w3.org/2000/01/rdf-schema#Class
RDFS_CLASS == <<"h","t","t","p",":","/","/","w","w","w",".","w","3",".","o","r","g","/","2","0","0","0","/","0","1","/","r","d","f","-","s","c","h","e","m","a","#","C","l","a","s","s">>
\* http://www.w3.org/2002/07/owl#Class
OWL_CLASS == <<"h","t","t","p",":","/","/","w","w","w",".","w","3",".","o","r","g","/","2","0","0","2","/","0","7","/","o","w","l","#","C","l","a","s","s">>

EXCLUDED_CLASSES == {OWL_THING, OWL_NOTHING, RDFS_RESOURCE, RDFS_CLASS, OWL_CLASS}

\* predicates, written as prefixed names; a predicate is only ever compared
RDF_TYPE == "rdf:type"
RDFS_SUBCLASSOF == "rdfs:subClassOf"
RDFS_LABEL == "rdfs:label"
OWL_DEPRECATED == "owl:deprecated"
PREFIX_IRI == "metadata:prefixIRI"
AIT_SELECTED_NAMESPACE == "ait:selectedNamespace"
AIT_DISPLAY_NAME_MODE == "ait:displayNameMode"
AIT_SHOW_DEPRECATED == "ait:showDeprecated"

----------------------------------------------------------------------------
(* RDF terms and the store *)

Iri(s) == [k |-> "iri", v |-> s]

Lit(s) == [k |-> "lit", v |-> s]

BNode(s) == [k |-> "bnode", v |-> s]

\* a variable the solution leaves unbound: the key is missing from the row
Null == <<"None">>

Unbound == [k |-> "unbound", v |-> Null]

\* _:
BLANK_PREFIX == <<"_",":">>

\* Store.query's rendering of a bound value as str
Render(t) ==
  IF t.k = "bnode" THEN BLANK_PREFIX \o t.v
  ELSE t.v

\* Python truthiness of row.get(key)
Truthy(v) == v # Null /\ v # <<>>

\* objects of (s, p, ?o) in a graph
Objects(g, s, p) == {t[3] : t \in {u \in g : u[1] = s /\ u[2] = p}}

\* subjects of (?s, p, o) in a graph
Subjects(g, p, o) == {t[1] : t \in {u \in g : u[2] = p /\ u[3] = o}}

\* OPTIONAL { ... }: the matches, or one solution that leaves the variable unbound
Optional(S) == IF S = {} THEN {Unbound} ELSE S

----------------------------------------------------------------------------
(* Namespace Classifier *)

extract_local_name(uri) ==
  LET hash_idx  == RFind(uri, "#")
      slash_idx == RFind(uri, "/")
      idx       == IF hash_idx > slash_idx THEN hash_idx ELSE slash_idx
  IN  IF idx >= 1 THEN SubSeq(uri, idx + 1, Len(uri)) ELSE uri

extract_namespace(uri) ==
  LET hash_idx  == RFind(uri, "#")
      slash_idx == RFind(uri, "/")
  IN  IF hash_idx >= 1 THEN SubSeq(uri, 1, hash_idx)
      ELSE IF slash_idx >= 1 THEN SubSeq(uri, 1, slash_idx)
      ELSE uri

\* threshold = 0.05, as the fraction ThresholdNum / ThresholdDen
ThresholdNum == 5

ThresholdDen == 100

\* max(3, int(total * threshold))
MinMajorCount == 3

\* variant: two class URIs are enough for a major namespace
min_count_low(total) ==
  LET scaled == (total * ThresholdNum) \div ThresholdDen
  IN  IF scaled > 2 THEN scaled ELSE 2

min_count(total) ==
  LET scaled == (total * ThresholdNum) \div ThresholdDen
  IN  IF scaled > MinMajorCount THEN scaled ELSE MinMajorCount

\* variant: only the leading class URIs of the list are counted
major_namespaces_leading(class_uris) ==
  LET leading == SubSeq(class_uris, 1, IF Len(class_uris) < MinMajorCount
                                       THEN Len(class_uris) ELSE MinMajorCount)
      all_namespaces == [i \in DOMAIN leading |-> extract_namespace(leading[i])]
      count(ns) == Cardinality({i \in DOMAIN all_namespaces : all_namespaces[i] = ns})
  IN  {ns \in Range(all_namespaces) : count(ns) >= min_count(Len(class_uris))}

\* the namespaces with at least min_count class URIs
major_namespaces(class_uris) ==
  LET all_namespaces == [i \in DOMAIN class_uris |-> extract_namespace(class_uris[i])]
      count(ns) == Cardinality({i \in DOMAIN all_namespaces : all_namespaces[i] = ns})
  IN  {ns \in Range(all_namespaces) : count(ns) >= min_count(Len(class_uris))}

\* "/".join(parts[:i]) + "/"
candidate_prefix(parts, i) == Join(SubSeq(parts, 1, i), "/") \o <<"/">>

\* range(3, len(parts)): the shortest candidate keeps 3 parts
FirstPrefixParts == 3

\* variant: one major namespace is enough for a base prefix
base_prefixes_single(major) ==
  UNION {
    LET parts == Split(RStrip(ns, "/"), "/")
    IN  {candidate_prefix(parts, i) : i \in FirstPrefixParts..(Len(parts) - 1)}
    : ns \in major}

base_prefixes(major) ==
  UNION {
    LET parts == Split(RStrip(ns, "/"), "/")
    IN  {candidate_prefix(parts, i) : i \in
           {j \in FirstPrefixParts..(Len(parts) - 1) :
              Cardinality({mns \in major : StartsWith(mns, candidate_prefix(parts, j))}) >= 2}}
    : ns \in major}

detect_internal_namespaces(class_uris) ==
  IF class_uris = <<>> THEN {}
  ELSE LET all_namespaces == {extract_namespace(class_uris[i]) : i \in DOMAIN class_uris}
           major == major_namespaces(class_uris)
           bases == base_prefixes(major)
       IN  major \cup {ns \in all_namespaces : \E base \in bases : StartsWith(ns, base)}

----------------------------------------------------------------------------
(* OntologyConfig in the meta graph *)

\* true
LIT_TRUE == <<"t","r","u","e">>
\* false
LIT_FALSE == <<"f","a","l","s","e">>
\* label
MODE_LABEL == <<"l","a","b","e","l">>

\* the configurations _get_ontology_config may return: display_name_mode and
\* show_deprecated are read from the first row of their query, in any row order;
\* selected_namespaces is held as the set of its elements
get_ontology_config(st, ontology_uri) ==
  LET meta       == st[AIT_META_GRAPH]
      subj       == Iri(ontology_uri)
      namespaces == {ns \in {Render(o) : o \in Objects(meta, subj, AIT_SELECTED_NAMESPACE)} :
                       Truthy(ns)}
      modes      == {Render(o) : o \in Objects(meta, subj, AIT_DISPLAY_NAME_MODE)}
      shows      == {Render(o) : o \in Objects(meta, subj, AIT_SHOW_DEPRECATED)}
      display    == IF modes = {} THEN {MODE_LABEL} ELSE modes
      deprecated == IF shows = {} THEN {FALSE} ELSE {Lower(v) = LIT_TRUE : v \in shows}
  IN  {[ontology_uri |-> ontology_uri, selected_namespaces |-> namespaces,
        display_name_mode |-> m, show_deprecated |-> d] : m \in display, d \in deprecated}

\* urn:ait:ontology#
AIT_NS == <<"u","r","n",":","a","i","t",":","o","n","t","o","l","o","g","y","#">>

\* the predicates of the configuration as the statements spell them
SELECTED_NAMESPACE_IRI == AIT_NS \o <<"s","e","l","e","c","t","e","d","N","a","m","e","s","p","a","c","e">>

DISPLAY_NAME_MODE_IRI == AIT_NS \o <<"d","i","s","p","l","a","y","N","a","m","e","M","o","d","e">>

SHOW_DEPRECATED_IRI == AIT_NS \o <<"s","h","o","w","D","e","p","r","e","c","a","t","e","d">>

\* the name the store's triples carry for a predicate a statement spells out
predicate_of(iri) ==
  IF iri = SELECTED_NAMESPACE_IRI THEN AIT_SELECTED_NAMESPACE
  ELSE IF iri = DISPLAY_NAME_MODE_IRI THEN AIT_DISPLAY_NAME_MODE
  ELSE IF iri = SHOW_DEPRECATED_IRI THEN AIT_SHOW_DEPRECATED
  ELSE "other:predicate"

\* of the characters used, the ones an IRI between < and > may not hold
IRIREF_EXCLUDED == {" ", "\"", "<", ">"}

\* the first place from pos on where text holds one of the characters cs, 0
\* when there is none
FindFrom(text, pos, cs) ==
  LET hits == {i \in pos..Len(text) : text[i] \in cs}
  IN  IF hits = {} THEN 0 ELSE MinOf(hits)

ErrorToken == [k |-> "error", v |-> <<>>]

DotToken == [k |-> "dot", v |-> <<>>]

LONG_QUOTE == <<"\"", "\"", "\"">>

\* the terms and full stops of the triples of an INSERT DATA block, as the
\* store's parser reads them from pos on: <iri>, "literal", """long literal"""
\* and "."; anything else is a syntax error, which ends the reading
RECURSIVE sparql_tokens(_, _)
sparql_tokens(text, pos) ==
  LET start == FindFrom(text, pos, CharSet \ {" "})
  IN  IF start = 0 THEN <<>>
      ELSE IF text[start] = "." THEN <<DotToken>> \o sparql_tokens(text, start + 1)
      ELSE IF text[start] = "<"
      THEN LET close == FindFrom(text, start + 1, {">"})
           IN  IF close = 0
                  \/ \E i \in (start + 1)..(close - 1) : text[i] \in IRIREF_EXCLUDED
               THEN <<ErrorToken>>
               ELSE <<Iri(SubSeq(text, start + 1, close - 1))>>
                      \o sparql_tokens(text, close + 1)
      ELSE IF text[start] = "\"" /\ start + 2 <= Len(text)
              /\ SubSeq(text, start, start + 2) = LONG_QUOTE
      THEN LET ends == {i \in (start + 3)..(Len(text) - 2) :
                          SubSeq(text, i, i + 2) = LONG_QUOTE}
           IN  IF ends = {} THEN <<ErrorToken>>
               ELSE <<Lit(SubSeq(text, start + 3, MinOf(ends) - 1))>>
                      \o sparql_tokens(text, MinOf(ends) + 3)
      ELSE IF text[start] = "\""
      THEN LET close == FindFrom(text, start + 1, {"\""})
           IN  IF close = 0 THEN <<ErrorToken>>
               ELSE <<Lit(SubSeq(text, start + 1, close - 1))>>
                      \o sparql_tokens(text, close + 1)
      ELSE <<ErrorToken>>

\* the tokens of a block whose last triple has no full stop get one
terminated(read) ==
  IF read # <<>> /\ read[Len(read)] # DotToken THEN Append(read, DotToken) ELSE read

\* n triples, each a subject IRI, a predicate IRI, an object and a full stop
well_formed(tokens, n) ==
  /\ Len(tokens) = 4 * n
  /\ \A g \in 0..(n - 1) :
       /\ tokens[4 * g + 1].k = "iri"
       /\ tokens[4 * g + 2].k = "iri"
       /\ tokens[4 * g + 3].k \in {"iri", "lit"}
       /\ tokens[4 * g + 4].k = "dot"

triples_of(tokens, n) ==
  IF well_formed(tokens, n)
  THEN [ok |-> TRUE,
        triples |-> {<<tokens[4 * g + 1], predicate_of(tokens[4 * g + 2].v),
                       tokens[4 * g + 3]>> : g \in 0..(n - 1)}]
  ELSE [ok |-> FALSE, triples |-> {}]

parsed(tokens) == triples_of(tokens, Len(tokens) \div 4)

\* the triples an INSERT DATA block with this text adds: [ok, triples]; ok is
\* FALSE when the store raises a syntax error
parse_insert_data(text) == parsed(terminated(sparql_tokens(text, 1)))

\* f"<{iri}>"
iri_text(iri) == <<"<">> \o iri \o <<">">>

\* f'<{ontology_uri}> <{AIT_NS}selectedNamespace> <{ns}> .'
namespace_statement(ontology_uri, ns) ==
  iri_text(ontology_uri) \o <<" ">> \o iri_text(SELECTED_NAMESPACE_IRI) \o <<" ">>
    \o iri_text(ns) \o <<" ", ".">>

\* the list of namespaces of a request: its elements in ascending order
namespace_list(namespaces) ==
  CHOOSE l \in Orders(namespaces) : \A i, j \in DOMAIN l : i < j => StrLess(l[i], l[j])

\* the body of insert_ns_query: the statements of the namespaces joined by " "
insert_ns_text(ontology_uri, namespaces) ==
  LET ns_list == namespace_list(namespaces)
  IN  Join([i \in DOMAIN ns_list |-> namespace_statement(ontology_uri, ns_list[i])], " ")

\* the body of insert_mode_query
insert_mode_text(ontology_uri, display_name_mode) ==
  iri_text(ontology_uri) \o <<" ">> \o iri_text(DISPLAY_NAME_MODE_IRI) \o <<" ", "\"">>
    \o display_name_mode \o <<"\"", " ", ".">>

\* the body of insert_deprecated_query: str(show_deprecated).lower()
insert_deprecated_text(ontology_uri, show_deprecated) ==
  iri_text(ontology_uri) \o <<" ">> \o iri_text(SHOW_DEPRECATED_IRI) \o <<" ", "\"">>
    \o (IF show_deprecated THEN LIT_TRUE ELSE LIT_FALSE) \o <<"\"", " ", ".">>

\* The strings of the save requests made below: two ontologies, plain
\* namespaces, and strings that hold characters of the SPARQL syntax
\* u:o
ONTO == <<"u",":","o">>
\* http://matportal.org/ontologies/M
ONTO_M == <<"h","t","t","p",":","/","/","m","a","t","p","o","r","t","a","l",".","o","r","g","/","o","n","t","o","l","o","g","i","e","s","/","M">>
\* u:p
ONTO_B == <<"u",":","p">>
\* u:a#
NS_A == <<"u",":","a","#">>
\* u:e/
NS_E == <<"u",":","e","/">>
\* a display name mode that holds a double quote: la"bel
MODE_QUOTED == <<"l","a","\"","b","e","l">>
\* a namespace string that closes its IRI and goes on with statements of its own:
\* u:a#> . <u:p> <urn:ait:ontology#showDeprecated> "true" . <u:o> <urn:ait:ontology#selectedNamespace> <u:e/
NS_CRAFTED == <<"u",":","a","#",">"," ","."," ","<","u",":","p",">"," ","<","u","r","n",":","a","i","t",":","o","n","t","o","l","o","g","y","#","s","h","o","w","D","e","p","r","e","c","a","t","e","d",">"," ","\"","t","r","u","e","\""," ","."," ","<","u",":","o",">"," ","<","u","r","n",":","a","i","t",":","o","n","t","o","l","o","g","y","#","s","e","l","e","c","t","e","d","N","a","m","e","s","p","a","c","e",">"," ","<","u",":","e","/">>

SavedOntologies == {ONTO, ONTO_B, ONTO_M}

SavedSelections == {{NS_A}, {NS_A, NS_E}, {NS_CRAFTED}}

SavedModes == {MODE_LABEL, MODE_QUOTED}

\* the statement texts of these requests, each parsed once
InsertTexts ==
  {insert_ns_text(o, ns) : o \in SavedOntologies, ns \in SavedSelections}
  \cup {insert_mode_text(o, m) : o \in SavedOntologies, m \in SavedModes}
  \cup {insert_deprecated_text(o, d) : o \in SavedOntologies, d \in BOOLEAN}

ParsedInserts == [text \in InsertTexts |-> parse_insert_data(text)]

\* store.update of an INSERT DATA block with this text
insert_data(text) ==
  IF text \in InsertTexts THEN ParsedInserts[text] ELSE parse_insert_data(text)

\* the three DELETE WHERE statements: the meta graph without the configuration
\* of the subject
config_deleted(meta, subj) ==
  {t \in meta : ~(t[1] = subj /\ t[2] \in {AIT_SELECTED_NAMESPACE,
                                            AIT_DISPLAY_NAME_MODE,
                                            AIT_SHOW_DEPRECATED})}

\* the INSERT DATA statements in their order; the first that raises ends the
\* save. [store, raised]
inserted(st, deleted, ins_ns, ins_md, ins_dep) ==
  [store  |-> [st EXCEPT ![AIT_META_GRAPH] =
                 deleted
                 \cup (IF ins_ns.ok THEN ins_ns.triples ELSE {})
                 \cup (IF ins_ns.ok /\ ins_md.ok THEN ins_md.triples ELSE {})
                 \cup (IF ins_ns.ok /\ ins_md.ok /\ ins_dep.ok THEN ins_dep.triples ELSE {})],
   raised |-> ~(ins_ns.ok /\ ins_md.ok /\ ins_dep.ok)]

\* _save_ontology_config for an ontology_uri that is an IRI: three DELETE WHERE,
\* then the INSERT DATA statements, each a store.update of its own with the
\* request's strings put into its text as they are; a statement the store
\* cannot parse raises and the statements before it stay applied.
save_ontology_config(st, ontology_uri, namespaces, display_name_mode, show_deprecated) ==
  inserted(st,
           config_deleted(st[AIT_META_GRAPH], Iri(ontology_uri)),
           IF namespaces = {} THEN [ok |-> TRUE, triples |-> {}]
           ELSE insert_data(insert_ns_text(ontology_uri, namespaces)),
           insert_data(insert_mode_text(ontology_uri, display_name_mode)),
           insert_data(insert_deprecated_text(ontology_uri, show_deprecated)))

----------------------------------------------------------------------------
(* Hierarchy Builder: get_class_hierarchy *)

\* variant: the bulk query without the two type patterns, every subject of
\* rdfs:subClassOf counts as a class
hierarchy_rows_untyped(g) ==
  {[class      |-> Render(t[1]),
    label      |-> Null,
    prefixIRI  |-> Null,
    deprecated |-> Null,
    parent     |-> Render(t[3])] : t \in {x \in g : x[2] = RDFS_SUBCLASSOF /\ x[3].k = "iri"}}

\* the solutions of the bulk query: one row per combination of the OPTIONAL
\* matches of each declared class (SELECT DISTINCT)
hierarchy_rows(g) ==
  LET classes == Subjects(g, RDF_TYPE, Iri(OWL_CLASS)) \cup Subjects(g, RDF_TYPE, Iri(RDFS_CLASS))
  IN  UNION {
        {[class      |-> Render(c),
          label      |-> Render(l),
          prefixIRI  |-> Render(x),
          deprecated |-> Render(d),
          parent     |-> Render(p)] :
           l \in Optional(Objects(g, c, RDFS_LABEL)),
           x \in Optional(Objects(g, c, PREFIX_IRI)),
           d \in Optional(Objects(g, c, OWL_DEPRECATED)),
           p \in Optional({o \in Objects(g, c, RDFS_SUBCLASSOF) : o.k = "iri"})}
        : c \in classes}

\* first pass: the rows of classes that are neither blank nor excluded
class_data(rows) ==
  SelectSeq(rows, LAMBDA row :
    /\ Truthy(row.class)
    /\ ~StartsWith(row.class, BLANK_PREFIX)
    /\ row.class \notin EXCLUDED_CLASSES)

is_external(uri, internal_namespaces) ==
  extract_namespace(uri) \notin internal_namespaces

\* variant: the stored selection is ignored and detection always runs
internal_namespaces_detected(config, rows) ==
  {detect_internal_namespaces(all_class_uris) :
     all_class_uris \in Orders({row.class : row \in {r \in Range(rows) : Truthy(r.class)}})}

\* the internal-namespace sets the request may use: the stored selection, or the
\* detection on list({class URIs}), a list in any order
internal_namespaces_of(config, rows) ==
  IF config.selected_namespaces # {}
  THEN {config.selected_namespaces}
  ELSE {detect_internal_namespaces(all_class_uris) :
          all_class_uris \in Orders({row.class : row \in {r \in Range(rows) : Truthy(r.class)}})}

NodeUris(nodes) == {nodes[i].uri : i \in DOMAIN nodes}

NodeIndex(nodes, uri) == CHOOSE i \in DOMAIN nodes : nodes[i].uri = uri

\* variant: a parent in EXCLUDED_CLASSES is kept
keeps_parent_excluded(class_uri, parent) ==
  /\ Truthy(parent)
  /\ ~StartsWith(parent, BLANK_PREFIX)

\* whether a parent of a row becomes an edge
keeps_parent(class_uri, parent) ==
  /\ Truthy(parent)
  /\ parent \notin EXCLUDED_CLASSES
  /\ ~StartsWith(parent, BLANK_PREFIX)

\* one iteration of the loop over class_data
hierarchy_row_step(st, row, internal_namespaces) ==
  LET class_uri      == row.class
      deprecated_val == row.deprecated
      is_deprecated  == IF Truthy(deprecated_val) THEN Lower(deprecated_val) = LIT_TRUE ELSE FALSE
      deprecated1    == IF is_deprecated THEN st.deprecated_classes \cup {class_uri}
                        ELSE st.deprecated_classes
      nodes1 == IF class_uri \notin NodeUris(st.nodes)
                THEN Append(st.nodes,
                       [uri           |-> class_uri,
                        label         |-> IF Truthy(row.label) THEN row.label
                                          ELSE extract_local_name(class_uri),
                        prefix_iri    |-> row.prefixIRI,
                        entity_type   |-> "Class",
                        parent_uris   |-> <<>>,
                        is_external   |-> is_external(class_uri, internal_namespaces),
                        is_deprecated |-> is_deprecated])
                ELSE st.nodes
      parent == row.parent
      i      == NodeIndex(nodes1, class_uri)
      nodes2 == IF parent \notin Range(nodes1[i].parent_uris)
                THEN [nodes1 EXCEPT ![i].parent_uris = Append(@, parent)]
                ELSE nodes1
      map1   == IF parent \notin DOMAIN st.children_map
                THEN st.children_map @@ (parent :> <<>>)
                ELSE st.children_map
      map2   == IF class_uri \notin Range(map1[parent])
                THEN [map1 EXCEPT ![parent] = Append(@, class_uri)]
                ELSE map1
  IN  IF ~Truthy(class_uri) THEN st
      ELSE IF keeps_parent(class_uri, parent)
      THEN [nodes |-> nodes2, children_map |-> map2, deprecated_classes |-> deprecated1]
      ELSE [nodes |-> nodes1, children_map |-> st.children_map,
            deprecated_classes |-> deprecated1]

RECURSIVE hierarchy_rows_loop(_, _, _, _)
hierarchy_rows_loop(st, rows, i, internal_namespaces) ==
  IF i > Len(rows) THEN st
  ELSE hierarchy_rows_loop(hierarchy_row_step(st, rows[i], internal_namespaces),
                           rows, i + 1, internal_namespaces)

\* has_internal_descendant(uri, visited): visited is shared by the whole search, so
\* the result carries it: [found, visited]
RECURSIVE has_internal_descendant(_, _, _, _)
RECURSIVE has_internal_descendant_from(_, _, _, _, _)
has_internal_descendant(uri, visited, st, internal_namespaces) ==
  IF uri \in visited THEN [found |-> FALSE, visited |-> visited]
  ELSE has_internal_descendant_from(
         IF uri \in DOMAIN st.children_map THEN st.children_map[uri] ELSE <<>>,
         1, visited \cup {uri}, st, internal_namespaces)

\* variant: the search looks at the direct children only
RECURSIVE direct_children_only(_, _, _, _, _)
direct_children_only(children, i, visited, st, internal_namespaces) ==
  IF i > Len(children) THEN [found |-> FALSE, visited |-> visited]
  ELSE IF children[i] \in NodeUris(st.nodes) /\ ~is_external(children[i], internal_namespaces)
  THEN [found |-> TRUE, visited |-> visited]
  ELSE direct_children_only(children, i + 1, visited, st, internal_namespaces)

\* variant: a class with a returned child counts as having an internal descendant
any_child_promotes(children, i, visited, st, internal_namespaces) ==
  [found   |-> \E j \in i..Len(children) : children[j] \in NodeUris(st.nodes),
   visited |-> visited]

\* the loop over the children of one class, from child number i on
has_internal_descendant_from(children, i, visited, st, internal_namespaces) ==
  IF i > Len(children) THEN [found |-> FALSE, visited |-> visited]
  ELSE LET child_uri == children[i]
       IN  IF child_uri \notin NodeUris(st.nodes)
           THEN has_internal_descendant_from(children, i + 1, visited, st, internal_namespaces)
           ELSE IF ~is_external(child_uri, internal_namespaces)
           THEN [found |-> TRUE, visited |-> visited]
           ELSE LET below == has_internal_descendant(child_uri, visited, st, internal_namespaces)
                IN  IF below.found THEN below
                    ELSE has_internal_descendant_from(children, i + 1, below.visited,
                                                      st, internal_namespaces)

\* "only truly orphaned external classes stay marked"
promote_ancestors(st, internal_namespaces) ==
  [i \in DOMAIN st.nodes |->
     IF st.nodes[i].is_external
        /\ has_internal_descendant(st.nodes[i].uri, {}, st, internal_namespaces).found
     THEN [st.nodes[i] EXCEPT !.is_external = FALSE]
     ELSE st.nodes[i]]

\* variant: the nodes stay in the order of their first rows
hierarchy_result_unsorted(nodes, config) ==
  IF ~config.show_deprecated
  THEN SelectSeq(nodes, LAMBDA n : ~n.is_deprecated)
  ELSE nodes

\* the deprecated filter and the final sort
hierarchy_result(nodes, config) ==
  LET result_nodes == IF ~config.show_deprecated
                      THEN SelectSeq(nodes, LAMBDA n : ~n.is_deprecated)
                      ELSE nodes
  IN  Sorted(result_nodes, [i \in DOMAIN result_nodes |-> Lower(result_nodes[i].label)])

\* the body of get_class_hierarchy, given the rows in the order the store returned
\* them, the configuration read and the internal namespaces chosen
class_hierarchy(rows, config, internal_namespaces) ==
  LET st == hierarchy_rows_loop(
              [nodes |-> <<>>, children_map |-> <<>>, deprecated_classes |-> {}],
              class_data(rows), 1, internal_namespaces)
  IN  hierarchy_result(promote_ancestors(st, internal_namespaces), config)

----------------------------------------------------------------------------
(* State and requests *)


\* ox.DefaultGraph(): the graph of the triples loaded without a graph name
DefaultGraph == <<"DefaultGraph">>

GraphNames == {ONTO, ONTO_B, ONTO_M, AIT_META_GRAPH, DefaultGraph}

NoResponse == [kind |-> "none", request |-> <<>>, body |-> <<>>]

\* the store after construction holds no triple
Init ==
  /\ store = [g \in GraphNames |-> {}]
  /\ response = NoResponse

\* Store.load_rdf(data, graph_name=...): the triples of the document are added
\* variant: a SELECT that empties the dataset it reads
store_query_clearing(st) == [g \in DOMAIN st |-> {}]

\* Store.query(sparql) evaluates a SELECT: the dataset after the call
store_query(st) == st

\* ox.NamedNode(graph_name) if graph_name else ox.DefaultGraph()
graph_of(graph_name) == IF Truthy(graph_name) THEN graph_name ELSE DefaultGraph

LoadRdf(graph_name, triples) ==
  /\ store' = [store EXCEPT ![graph_of(graph_name)] = @ \cup triples]
  /\ response' = [kind |-> "loaded", request |-> graph_name,
                  body |-> Cardinality(triples \ store[graph_of(graph_name)])]

\* Store.__len__: the number of quads
store_len(st) == Cardinality({q \in (DOMAIN st) \X (UNION Range(st)) : q[2] \in st[q[1]]})

\* variant: every named graph of the dataset is listed, with or without triples
graphs_of_dataset(st) == DOMAIN st \ {DefaultGraph}

\* Store.graphs(): the values of ?g in SELECT DISTINCT ?g WHERE { GRAPH ?g { ?s ?p ?o } }
graphs(st) == {g \in DOMAIN st \ {DefaultGraph} : \E t \in st[g] : TRUE}

\* Store.clear(graph_name): CLEAR GRAPH <graph_name>, or CLEAR ALL when the
\* name is None or empty
clear(st, graph_name) ==
  IF Truthy(graph_name) THEN [st EXCEPT ![graph_name] = {}]
  ELSE [g \in DOMAIN st |-> {}]

\* CLEAR GRAPH without SILENT on a graph the dataset does not hold may raise;
\* the dataset is then unchanged
Clear(graph_name) ==
  \/ /\ store' = clear(store, graph_name)
     /\ response' = [kind |-> "cleared", request |-> graph_name, body |-> <<>>]
  \/ /\ Truthy(graph_name)
     /\ store[graph_name] = {}
     /\ store' = store
     /\ response' = [kind |-> "error", request |-> graph_name, body |-> <<>>]

\* list(store.graphs())
Graphs ==
  /\ response' = [kind |-> "graphs", request |-> <<>>, body |-> graphs(store)]
  /\ store' = store_query(store)

\* len(store)
StoreLen ==
  /\ response' = [kind |-> "len", request |-> <<>>, body |-> store_len(store)]
  /\ UNCHANGED store

\* PUT /api/ontologies/{ontology_uri}/config
SaveOntologyConfig(ontology_uri, namespaces, display_name_mode, show_deprecated) ==
  LET saved == save_ontology_config(store, ontology_uri, namespaces,
                                    display_name_mode, show_deprecated)
  IN  /\ store' = saved.store
      /\ response' = IF saved.raised
                     THEN [kind |-> "error", request |-> ontology_uri, body |-> <<>>]
                     ELSE [kind |-> "config", request |-> ontology_uri,
                           body |-> [ontology_uri |-> ontology_uri,
                                     selected_namespaces |-> namespaces,
                                     display_name_mode |-> display_name_mode,
                                     show_deprecated |-> show_deprecated]]

\* no store.query call of the request raised
NoneRaised == "none"

\* variant: the handler catches the exception of a store.query call and answers
\* with an empty body
swallowed(kind, request, failing) ==
  [kind |-> kind, request |-> request, body |-> <<>>, raised |-> failing]

\* the handlers call store.query outside any try block: the exception of the
\* call named failing ends the request, which fails with it
propagated(kind, request, failing) ==
  [kind |-> "failed", request |-> request, body |-> failing, raised |-> failing]

\* GET /api/ontologies/{ontology_uri}/hierarchy
GetClassHierarchy(ontology_uri) ==
  /\ \E rows \in Orders(hierarchy_rows(store[ontology_uri])) :
     \E config \in get_ontology_config(store, ontology_uri) :
     \E internal_namespaces \in internal_namespaces_of(config, class_data(rows)) :
       response' = [kind |-> "hierarchy", request |-> ontology_uri,
                    body |-> [nodes |-> class_hierarchy(rows, config, internal_namespaces),
                              internal_namespaces |-> internal_namespaces],
                    raised |-> NoneRaised]
  /\ store' = store_query(store)

\* the store.query calls of one hierarchy request: the bulk query, then the
\* three queries of _get_ontology_config
hierarchy_queries == <<"query", "ns_query", "mode_query", "deprecated_query">>

\* the same request when the store.query call named failing raises
GetClassHierarchyRaising(ontology_uri, failing) ==
  /\ failing \in Range(hierarchy_queries)
  /\ response' = propagated("hierarchy", ontology_uri, failing)
  /\ store' = store_query(store)

----------------------------------------------------------------------------
(* The hierarchy requests over a small ontology *)

\* u:a#A
CLS_A == <<"u",":","a","#","A">>
\* u:e/E
CLS_E == <<"u",":","e","/","E">>
\* u:e/F
CLS_F == <<"u",":","e","/","F">>
\* u:e/G
CLS_G == <<"u",":","e","/","G">>
\* the label of the blank node _:b
BLANK_B == <<"b">>

IsClass(c) == <<c, RDF_TYPE, Iri(OWL_CLASS)>>

SubClassOf(c, p) == <<c, RDFS_SUBCLASSOF, p>>

\* the triples a hierarchy document is drawn from: class declarations, a chain
\* A < E < F with a cycle F < E, self-loops, a second parent of A, and edges
\* through an excluded root and a blank node
HierTriples ==
  {IsClass(c) : c \in {Iri(CLS_A), Iri(CLS_E), Iri(CLS_F), Iri(CLS_G),
                       Iri(OWL_THING), BNode(BLANK_B)}}
  \cup {SubClassOf(Iri(CLS_A), Iri(CLS_E)), SubClassOf(Iri(CLS_E), Iri(CLS_F)),
        SubClassOf(Iri(CLS_F), Iri(CLS_E)), SubClassOf(Iri(CLS_A), Iri(CLS_F)),
        SubClassOf(Iri(CLS_A), Iri(CLS_A)), SubClassOf(Iri(CLS_E), Iri(CLS_E)),
        SubClassOf(Iri(CLS_A), Iri(OWL_THING)), SubClassOf(Iri(OWL_THING), Iri(CLS_E)),
        SubClassOf(BNode(BLANK_B), Iri(CLS_E)), SubClassOf(Iri(CLS_A), BNode(BLANK_B))}

MaxHierTriples == 5

HierSelections == {{}, {NS_A}}

HierLoad ==
  \E t \in HierTriples :
    /\ Cardinality(store[ONTO]) < MaxHierTriples
    /\ t \notin store[ONTO]
    /\ LoadRdf(ONTO, {t})

HierSave ==
  \E namespaces \in HierSelections :
    SaveOntologyConfig(ONTO, namespaces, MODE_LABEL, FALSE)

HierGet == GetClassHierarchy(ONTO)

NextHier == HierLoad \/ HierSave \/ HierGet

SpecHier == Init /\ [][NextHier]_vars

----------------------------------------------------------------------------
(* Claims about get_class_hierarchy *)

\* the declared classes of a graph that are neither blank nor excluded
DeclaredClasses(g) ==
  {c.v : c \in {x \in Subjects(g, RDF_TYPE, Iri(OWL_CLASS)) \cup Subjects(g, RDF_TYPE, Iri(RDFS_CLASS)) :
                  x.k = "iri" /\ x.v \notin EXCLUDED_CLASSES}}

\* <<child, parent>>: the subClassOf triples between declared classes
DeclaredEdges(g) ==
  {e \in DeclaredClasses(g) \X DeclaredClasses(g) : SubClassOf(Iri(e[1]), Iri(e[2])) \in g}

RECURSIVE DownClosure(_, _)
DownClosure(S, edges) ==
  LET more == S \cup {e[1] : e \in {x \in edges : x[2] \in S}}
  IN  IF more = S THEN S ELSE DownClosure(more, edges)

\* the classes reachable from uri over one or more subClassOf edges, downwards
DescendantsOf(g, uri) ==
  DownClosure({e[1] : e \in {x \in DeclaredEdges(g) : x[2] = uri}}, DeclaredEdges(g))

HierarchyReturned == response.kind = "hierarchy"

HierNodes == response.body.nodes

HierGraph == store[response.request]

HasInternalBelow(uri) ==
  \E d \in DescendantsOf(HierGraph, uri) :
    extract_namespace(d) \in response.body.internal_namespaces

\* C1: every returned class of an external namespace that has a descendant of an
\* internal namespace, over one or more subClassOf edges between declared
\* classes, is returned with is_external = false
C1_AncestorPromotion ==
  HierarchyReturned =>
    \A i \in DOMAIN HierNodes :
      (/\ extract_namespace(HierNodes[i].uri) \notin response.body.internal_namespaces
       /\ HasInternalBelow(HierNodes[i].uri))
      => HierNodes[i].is_external = FALSE

\* a promoted class whose internal descendant is no direct child of it
C1_Witness ==
  /\ HierarchyReturned
  /\ \E i \in DOMAIN HierNodes :
       /\ extract_namespace(HierNodes[i].uri) \notin response.body.internal_namespaces
       /\ HasInternalBelow(HierNodes[i].uri)
       /\ \A e \in DeclaredEdges(HierGraph) :
            e[2] = HierNodes[i].uri =>
              extract_namespace(e[1]) \notin response.body.internal_namespaces
       /\ HierNodes[i].is_external = FALSE

\* C2: no returned node holds its own URI in parent_uris
C2_NoSelfParent ==
  HierarchyReturned =>
    \A i \in DOMAIN HierNodes : HierNodes[i].uri \notin Range(HierNodes[i].parent_uris)

IsExcludedOrBlank(uri) == uri \in EXCLUDED_CLASSES \/ StartsWith(uri, BLANK_PREFIX)

\* C3: no excluded root and no blank node is the uri of a returned node or an
\* element of a returned node's parent_uris
C3_NoExcludedOrBlank ==
  HierarchyReturned =>
    \A i \in DOMAIN HierNodes :
      /\ ~IsExcludedOrBlank(HierNodes[i].uri)
      /\ \A p \in Range(HierNodes[i].parent_uris) : ~IsExcludedOrBlank(p)

\* the graph declares an excluded root and a blank node as classes, a returned
\* class has an excluded root as parent, and the hierarchy was returned
C3_Witness ==
  /\ HierarchyReturned
  /\ IsClass(Iri(OWL_THING)) \in HierGraph
  /\ IsClass(BNode(BLANK_B)) \in HierGraph
  /\ \E i \in DOMAIN HierNodes : SubClassOf(Iri(HierNodes[i].uri), Iri(OWL_THING)) \in HierGraph

\* the selectedNamespace values stored for the ontology of the last request
StoredSelection ==
  {o.v : o \in Objects(store[AIT_META_GRAPH], Iri(response.request), AIT_SELECTED_NAMESPACE)}

\* C4: with a non-empty stored selection the internal-namespace set used is exactly
\* the stored set; otherwise it is the detection on the distinct class URIs
C4_ManualOverridesDetection ==
  HierarchyReturned =>
    IF StoredSelection # {}
    THEN response.body.internal_namespaces = StoredSelection
    ELSE \A uris \in Orders(DeclaredClasses(HierGraph)) :
           response.body.internal_namespaces = detect_internal_namespaces(uris)

\* a stored selection that differs from what detection yields on the graph
C4_Witness ==
  /\ HierarchyReturned
  /\ StoredSelection # {}
  /\ response.body.internal_namespaces = StoredSelection
  /\ \E uris \in Orders(DeclaredClasses(HierGraph)) :
       /\ detect_internal_namespaces(uris) # {}
       /\ detect_internal_namespaces(uris) # StoredSelection

----------------------------------------------------------------------------
(* Property Resolver: _get_properties_for_class, _get_superclass_chain,
   get_class_properties *)

\* http://www.w3.org/2002/07/owl#ObjectProperty
OWL_OBJECT_PROPERTY == <<"h","t","t","p",":","/","/","w","w","w",".","w","3",".","o","r","g","/","2","0","0","2","/","0","7","/","o","w","l","#","O","b","j","e","c","t","P","r","o","p","e","r","t","y">>
\* http://www.w3.org/2002/07/owl#DatatypeProperty
OWL_DATATYPE_PROPERTY == <<"h","t","t","p",":","/","/","w","w","w",".","w","3",".","o","r","g","/","2","0","0","2","/","0","7","/","o","w","l","#","D","a","t","a","t","y","p","e","P","r","o","p","e","r","t","y">>
\* http://www.w3.org/2002/07/owl#AnnotationProperty
OWL_ANNOTATION_PROPERTY == <<"h","t","t","p",":","/","/","w","w","w",".","w","3",".","o","r","g","/","2","0","0","2","/","0","7","/","o","w","l","#","A","n","n","o","t","a","t","i","o","n","P","r","o","p","e","r","t","y">>

RDFS_DOMAIN == "rdfs:domain"
RDFS_RANGE == "rdfs:range"
OWL_ONE_OF == "owl:oneOf"
RDF_FIRST == "rdf:first"
RDF_REST == "rdf:rest"

\* the three types the OPTIONAL of the property queries lets through
PROPERTY_TYPES == {OWL_OBJECT_PROPERTY, OWL_DATATYPE_PROPERTY, OWL_ANNOTATION_PROPERTY}

\* Python's "sub in s" on strings
Contains(s, sub) ==
  \E i \in 1..(Len(s) - Len(sub) + 1) : SubSeq(s, i, i + Len(sub) - 1) = sub

\* Python's "a or b" on optional strings
OrElse(a, b) == IF Truthy(a) THEN a ELSE b

\* r.get(key, default): the default only when the key is absent from the row
Get(v, default) == IF v = Null THEN default ELSE v

\* the solutions of the query of _resolve_blank_node_range: one per match of
\* range, list, first member and (optional) label; the query has no DISTINCT,
\* and only the list node owl:oneOf points to is asked for its rdf:first
blank_range_solutions(g, property_uri) ==
  UNION { UNION { UNION {
    {[range |-> r, list |-> l, member |-> Render(m), memberLabel |-> Render(ml)] :
       ml \in Optional(Objects(g, m, RDFS_LABEL))}
    : m \in {o \in Objects(g, l, RDF_FIRST) : o.k # "bnode"}}
    : l \in Objects(g, r, OWL_ONE_OF)}
    : r \in Objects(g, Iri(property_uri), RDFS_RANGE)}

\* the loop of _resolve_blank_node_range over the rows
RECURSIVE resolved_of(_, _)
resolved_of(results, i) ==
  IF i > Len(results) THEN <<>>
  ELSE LET r == results[i]
       IN  (IF Truthy(r.member)
            THEN <<[uri   |-> r.member,
                    label |-> OrElse(r.memberLabel, extract_local_name(r.member))]>>
            ELSE <<>>) \o resolved_of(results, i + 1)

\* _resolve_blank_node_range: the lists it may return, one per order of the rows
resolve_blank_node_range(g, property_uri) ==
  {resolved_of(results, 1) : results \in Orders(blank_range_solutions(g, property_uri))}

\* the range of a property with the OPTIONAL label of the range
range_with_label(g, p) ==
  IF Objects(g, p, RDFS_RANGE) = {} THEN {<<Unbound, Unbound>>}
  ELSE UNION {{<<r, l>> : l \in Optional(Objects(g, r, RDFS_LABEL))} :
                r \in Objects(g, p, RDFS_RANGE)}

\* the solutions of domain_query (SELECT DISTINCT)
domain_rows(g, class_uri) ==
  UNION {
    {[prop       |-> Render(p),
      propLabel  |-> Render(l),
      propType   |-> Render(t),
      range      |-> Render(rl[1]),
      rangeLabel |-> Render(rl[2])] :
       l \in Optional(Objects(g, p, RDFS_LABEL)),
       t \in Optional({o \in Objects(g, p, RDF_TYPE) : o.k = "iri" /\ o.v \in PROPERTY_TYPES}),
       rl \in range_with_label(g, p)}
    : p \in Subjects(g, RDFS_DOMAIN, Iri(class_uri))}

property_type_of(prop_type_uri) ==
  IF Contains(prop_type_uri, OWL_DATATYPE_PROPERTY) THEN "DatatypeProperty"
  ELSE IF Contains(prop_type_uri, OWL_ANNOTATION_PROPERTY) THEN "AnnotationProperty"
  ELSE "ObjectProperty"

PropUris(props) == {props[i].uri : i \in DOMAIN props}

PropIndex(props, uri) == CHOOSE i \in DOMAIN props : props[i].uri = uri

\* one iteration of "for r in domain_results"; props is the dict in insertion order
domain_row_step(props, r, class_uri) ==
  IF ~Truthy(r.prop) THEN props
  ELSE
    LET created ==
          IF r.prop \notin PropUris(props)
          THEN Append(props,
                 [uri           |-> r.prop,
                  label         |-> OrElse(r.propLabel, extract_local_name(r.prop)),
                  property_type |-> property_type_of(Get(r.propType, <<>>)),
                  domains       |-> <<[uri |-> class_uri, label |-> extract_local_name(class_uri)]>>,
                  ranges        |-> <<>>])
          ELSE props
        i == PropIndex(created, r.prop)
        existing_ranges == {created[i].ranges[j].uri : j \in DOMAIN created[i].ranges}
    IN  IF Truthy(r.range) /\ ~StartsWith(r.range, BLANK_PREFIX) /\ r.range \notin existing_ranges
        THEN [created EXCEPT ![i].ranges =
                Append(@, [uri   |-> r.range,
                           label |-> OrElse(r.rangeLabel, extract_local_name(r.range))])]
        ELSE created

RECURSIVE domain_rows_loop(_, _, _, _)
domain_rows_loop(props, rows, i, class_uri) ==
  IF i > Len(rows) THEN props
  ELSE domain_rows_loop(domain_row_step(props, rows[i], class_uri), rows, i + 1, class_uri)

\* "for prop_uri, prop_info in props.items()": a property left without a range
\* gets what _resolve_blank_node_range returns for it
RECURSIVE resolve_ranges(_, _, _)
resolve_ranges(g, props, i) ==
  IF i > Len(props) THEN {props}
  ELSE IF props[i].ranges # <<>> THEN resolve_ranges(g, props, i + 1)
  ELSE UNION {resolve_ranges(g, [props EXCEPT ![i].ranges = @ \o resolved], i + 1) :
                resolved \in resolve_blank_node_range(g, props[i].uri)}

\* _get_properties_for_class: the dicts (in insertion order) it may return
get_properties_for_class(g, class_uri) ==
  UNION {resolve_ranges(g, domain_rows_loop(<<>>, rows, 1, class_uri), 1) :
           rows \in Orders(domain_rows(g, class_uri))}

\* variant: the walk goes to a subclass instead of a superclass
child_rows(g, current) ==
  UNION {
    {[parent |-> Render(p), parentLabel |-> Render(l)] :
       l \in Optional(Objects(g, p, RDFS_LABEL))}
    : p \in {o \in Subjects(g, RDFS_SUBCLASSOF, Iri(current)) : o.k = "iri"}}

\* the solutions of parent_query for the class current
parent_rows(g, current) ==
  UNION {
    {[parent |-> Render(p), parentLabel |-> Render(l)] :
       l \in Optional(Objects(g, p, RDFS_LABEL))}
    : p \in {o \in Objects(g, Iri(current), RDFS_SUBCLASSOF) : o.k = "iri"}}

\* for _ in range(50)
MAX_CHAIN_DEPTH == 50

\* variant: the walk neither remembers the classes it passed nor stops at an
\* excluded root
chain_step_unguarded(g, walk) ==
  IF walk.done THEN {walk}
  ELSE IF parent_rows(g, walk.current) = {} THEN {[walk EXCEPT !.done = TRUE]}
  ELSE {IF ~Truthy(row.parent) THEN [walk EXCEPT !.done = TRUE]
        ELSE [current      |-> row.parent,
              visited      |-> walk.visited,
              superclasses |-> Append(walk.superclasses,
                                 [uri   |-> row.parent,
                                  label |-> OrElse(row.parentLabel,
                                                   extract_local_name(row.parent))]),
              done         |-> FALSE]
        : row \in parent_rows(g, walk.current)}

\* one iteration of the loop of _get_superclass_chain; done records the
\* break, and LIMIT 1 hands back any one of the solutions
chain_step(g, walk) ==
  IF walk.done THEN {walk}
  ELSE IF parent_rows(g, walk.current) = {} THEN {[walk EXCEPT !.done = TRUE]}
  ELSE {IF ~Truthy(row.parent) \/ row.parent \in walk.visited
           \/ row.parent \in EXCLUDED_CLASSES
        THEN [walk EXCEPT !.done = TRUE]
        ELSE [current      |-> row.parent,
              visited      |-> walk.visited \cup {row.parent},
              superclasses |-> Append(walk.superclasses,
                                 [uri   |-> row.parent,
                                  label |-> OrElse(row.parentLabel,
                                                   extract_local_name(row.parent))]),
              done         |-> FALSE]
        : row \in parent_rows(g, walk.current)}

\* hops iterations of the loop, one after the other (the first half of them,
\* then the rest)
RECURSIVE superclass_chain_from(_, _, _)
superclass_chain_from(g, walk, hops) ==
  IF hops = 0 THEN {walk}
  ELSE IF hops = 1 THEN chain_step(g, walk)
  ELSE UNION {superclass_chain_from(g, w, hops - (hops \div 2)) :
                w \in superclass_chain_from(g, walk, hops \div 2)}

\* the state of the walk before its first iteration
chain_start(class_uri) ==
  [current |-> class_uri, visited |-> {class_uri}, superclasses |-> <<>>, done |-> FALSE]

get_superclass_chain(g, class_uri) ==
  {walk.superclasses :
     walk \in superclass_chain_from(g, chain_start(class_uri), MAX_CHAIN_DEPTH)}

\* sorted(props, key=lambda x: x.label or "")
sorted_by_label(props) ==
  Sorted(props, [i \in DOMAIN props |-> OrElse(props[i].label, <<>>)])

\* variant: every property of the ancestor counts as new
all_props(ancestor_props, seen_prop_uris) == ancestor_props

\* the properties of an ancestor that no closer level has listed
new_props_of(ancestor_props, seen_prop_uris) ==
  SelectSeq(ancestor_props, LAMBDA prop : prop.uri \notin seen_prop_uris)

\* one iteration of "for ancestor in superclasses", for ancestor number i
inherited_group_step(g, superclasses, i, acc) ==
  {LET new_props == new_props_of(ancestor_props, acc.seen_prop_uris)
   IN  IF new_props # <<>>
       THEN [seen_prop_uris   |-> acc.seen_prop_uris \cup PropUris(new_props),
             inherited_groups |-> Append(acc.inherited_groups,
                                    [from_class |-> superclasses[i],
                                     properties |-> sorted_by_label(new_props)])]
       ELSE acc
   : ancestor_props \in get_properties_for_class(g, superclasses[i].uri)}

\* "for ancestor in superclasses" over ancestors lo..hi, in order (the first
\* half of them, then the rest)
RECURSIVE inherited_groups_from(_, _, _, _, _)
inherited_groups_from(g, superclasses, lo, hi, acc) ==
  IF lo > hi THEN {acc}
  ELSE IF lo = hi THEN inherited_group_step(g, superclasses, lo, acc)
  ELSE UNION {inherited_groups_from(g, superclasses, ((lo + hi) \div 2) + 1, hi, a) :
                a \in inherited_groups_from(g, superclasses, lo, (lo + hi) \div 2, acc)}

\* the domain of a property with the OPTIONAL label of the domain
domain_with_label(g, p) ==
  IF Objects(g, p, RDFS_DOMAIN) = {} THEN {<<Unbound, Unbound>>}
  ELSE UNION {{<<d, l>> : l \in Optional(Objects(g, d, RDFS_LABEL))} :
                d \in Objects(g, p, RDFS_DOMAIN)}

\* the solutions of range_query (SELECT DISTINCT)
range_rows(g, class_uri) ==
  UNION {
    {[prop        |-> Render(p),
      propLabel   |-> Render(l),
      propType    |-> Render(t),
      domain      |-> Render(dl[1]),
      domainLabel |-> Render(dl[2])] :
       l \in Optional(Objects(g, p, RDFS_LABEL)),
       t \in Optional({o \in Objects(g, p, RDF_TYPE) : o.k = "iri" /\ o.v \in PROPERTY_TYPES}),
       dl \in domain_with_label(g, p)}
    : p \in Subjects(g, RDFS_RANGE, Iri(class_uri))}

\* one iteration of "for r in range_results"
range_row_step(range_props, r, class_uri) ==
  IF ~Truthy(r.prop) THEN range_props
  ELSE
    LET created ==
          IF r.prop \notin PropUris(range_props)
          THEN Append(range_props,
                 [uri           |-> r.prop,
                  label         |-> OrElse(r.propLabel, extract_local_name(r.prop)),
                  property_type |-> property_type_of(Get(r.propType, <<>>)),
                  domains       |-> <<>>,
                  ranges        |-> <<[uri |-> class_uri, label |-> extract_local_name(class_uri)]>>])
          ELSE range_props
        i == PropIndex(created, r.prop)
        existing_domains == {created[i].domains[j].uri : j \in DOMAIN created[i].domains}
    IN  IF Truthy(r.domain) /\ ~StartsWith(r.domain, BLANK_PREFIX) /\ r.domain \notin existing_domains
        THEN [created EXCEPT ![i].domains =
                Append(@, [uri   |-> r.domain,
                           label |-> OrElse(r.domainLabel, extract_local_name(r.domain))])]
        ELSE created

RECURSIVE range_rows_loop(_, _, _, _)
range_rows_loop(range_props, rows, i, class_uri) ==
  IF i > Len(rows) THEN range_props
  ELSE range_rows_loop(range_row_step(range_props, rows[i], class_uri), rows, i + 1, class_uri)

\* the bodies get_class_properties may return; superclasses is the chain the
\* request walked
class_properties(g, class_uri) ==
  UNION { UNION { UNION {
    {[domain_of    |-> sorted_by_label(domain_props),
      inherited    |-> inherited_groups,
      range_of     |-> sorted_by_label(range_rows_loop(<<>>, rows, 1, class_uri)),
      superclasses |-> superclasses] :
       rows \in Orders(range_rows(g, class_uri))}
    : inherited_groups \in
        {acc.inherited_groups :
           acc \in inherited_groups_from(g, superclasses, 1, Len(superclasses),
                     [seen_prop_uris |-> PropUris(domain_props), inherited_groups |-> <<>>])}}
    : superclasses \in get_superclass_chain(g, class_uri)}
    : domain_props \in get_properties_for_class(g, class_uri)}

\* GET /api/class-properties
GetClassProperties(ontology, class_uri) ==
  /\ \E body \in class_properties(store[ontology], class_uri) :
       response' = [kind |-> "properties", request |-> <<ontology, class_uri>>, body |-> body,
                    raised |-> NoneRaised]
  /\ store' = store_query(store)

\* store.query calls of one class-properties request: the domain query of the
\* class, the parent query of the first hop, the domain query of an ancestor
\* when the chain has one, and the range query
properties_queries(g, class_uri) ==
  {"domain_query", "parent_query", "range_query"}
  \cup (IF \E superclasses \in get_superclass_chain(g, class_uri) : superclasses # <<>>
        THEN {"ancestor_domain_query"} ELSE {})

\* the same request when the store.query call named failing raises
GetClassPropertiesRaising(ontology, class_uri, failing) ==
  /\ failing \in properties_queries(store[ontology], class_uri)
  /\ response' = propagated("properties", <<ontology, class_uri>>, failing)
  /\ store' = store_query(store)

----------------------------------------------------------------------------
(* The class-properties requests over a small ontology *)

\* u:a#K
CLS_K == <<"u",":","a","#","K">>
\* u:a#L
CLS_L == <<"u",":","a","#","L">>
\* u:a#M
CLS_M == <<"u",":","a","#","M">>
\* u:a#p
PROP_P == <<"u",":","a","#","p">>
\* u:a#Q
PROP_Q == <<"u",":","a","#","Q">>

Domain(p, c) == <<p, RDFS_DOMAIN, c>>

HasRange(p, r) == <<p, RDFS_RANGE, r>>

PropsTriples ==
  {SubClassOf(Iri(CLS_K), Iri(CLS_L)), SubClassOf(Iri(CLS_L), Iri(CLS_M)),
   SubClassOf(Iri(CLS_K), Iri(CLS_M)), SubClassOf(Iri(CLS_M), Iri(CLS_K)),
   SubClassOf(Iri(CLS_L), Iri(OWL_THING))}
  \cup {Domain(Iri(p), Iri(c)) : p \in {PROP_P, PROP_Q}, c \in {CLS_K, CLS_L, CLS_M}}
  \cup {HasRange(Iri(PROP_P), Iri(CLS_K)), HasRange(Iri(PROP_Q), Iri(CLS_K)),
        <<Iri(PROP_P), RDF_TYPE, Iri(OWL_DATATYPE_PROPERTY)>>}

MaxPropsTriples == 5

PropsLoad ==
  \E t \in PropsTriples :
    /\ Cardinality(store[ONTO]) < MaxPropsTriples
    /\ t \notin store[ONTO]
    /\ LoadRdf(ONTO, {t})

PropsGet == \E class_uri \in {CLS_K, CLS_L, CLS_M} : GetClassProperties(ONTO, class_uri)

NextProps == PropsLoad \/ PropsGet

SpecProps == Init /\ [][NextProps]_vars

----------------------------------------------------------------------------
(* Claims about get_class_properties *)

PropsReturned == response.kind = "properties"

PropsGraph == store[response.request[1]]

PropsClass == response.request[2]

\* the class asked for, then the ancestors of the chain, nearest first
PropsLevels ==
  <<PropsClass>> \o [i \in DOMAIN response.body.superclasses |-> response.body.superclasses[i].uri]

\* the places of the answer that list a property: <<0, j>> is entry j of
\* domain_of, <<n, j>> entry j of inherited group n
PropsPlaces ==
  {<<0, j>> : j \in DOMAIN response.body.domain_of}
  \cup UNION {{<<n, j>> : j \in DOMAIN response.body.inherited[n].properties} :
                n \in DOMAIN response.body.inherited}

PlaceUri(pl) ==
  IF pl[1] = 0 THEN response.body.domain_of[pl[2]].uri
  ELSE response.body.inherited[pl[1]].properties[pl[2]].uri

PlaceLevel(pl) ==
  IF pl[1] = 0 THEN PropsClass ELSE response.body.inherited[pl[1]].from_class.uri

DeclaresDomain(p, c) == Domain(Iri(p), Iri(c)) \in PropsGraph

\* the levels that declare p as rdfs:domain
DeclaringLevels(p) == {n \in DOMAIN PropsLevels : DeclaresDomain(p, PropsLevels[n])}

\* the properties some level declares
LevelProperties ==
  {t[1].v : t \in {u \in PropsGraph :
     u[2] = RDFS_DOMAIN /\ \E n \in DOMAIN PropsLevels : u[3] = Iri(PropsLevels[n])}}

LevelOf(c) == CHOOSE n \in DOMAIN PropsLevels : PropsLevels[n] = c

\* C7: every property is listed exactly once across domain_of and the
\* inherited groups, under the nearest level (the class, then the chain
\* ancestors nearest first) that declares it as rdfs:domain; the groups follow
\* the chain order and no group is empty
C7_ListedOnceAtNearestLevel ==
  PropsReturned =>
    /\ \A pl \in PropsPlaces :
         /\ PlaceUri(pl) \in LevelProperties
         /\ PlaceLevel(pl) = PropsLevels[MinOf(DeclaringLevels(PlaceUri(pl)))]
    /\ \A p \in LevelProperties :
         Cardinality({pl \in PropsPlaces : PlaceUri(pl) = p}) = 1
    /\ \A n \in DOMAIN response.body.inherited :
         /\ response.body.inherited[n].properties # <<>>
         /\ response.body.inherited[n].from_class \in Range(response.body.superclasses)
    /\ \A n, m \in DOMAIN response.body.inherited :
         n < m => LevelOf(response.body.inherited[n].from_class.uri)
                    < LevelOf(response.body.inherited[m].from_class.uri)

\* a chain of two ancestors that both declare one property, and two groups
C7_Witness ==
  /\ PropsReturned
  /\ Len(response.body.superclasses) >= 2
  /\ Len(response.body.inherited) >= 2
  /\ \E p \in LevelProperties : Cardinality(DeclaringLevels(p)) >= 2

\* <<child, parent>>: the subClassOf triples between IRIs
SubClassEdges(g) ==
  {<<t[1].v, t[3].v>> : t \in {u \in g : u[2] = RDFS_SUBCLASSOF /\ u[1].k = "iri" /\ u[3].k = "iri"}}

StrictDescendants(g, c) ==
  DownClosure({e[1] : e \in {x \in SubClassEdges(g) : x[2] = c}}, SubClassEdges(g))

Acyclic(g) ==
  \A e \in SubClassEdges(g) : e[1] \notin StrictDescendants(g, e[1])

\* the properties whose only rdfs:domain is a strict descendant of the class
DescendantOnlyProperties ==
  {t[1].v : t \in {u \in PropsGraph :
     /\ u[2] = RDFS_DOMAIN
     /\ Objects(PropsGraph, u[1], RDFS_DOMAIN) = {u[3]}
     /\ u[3].v \in StrictDescendants(PropsGraph, PropsClass)}}

\* C8: in an acyclic subclass graph a property whose only rdfs:domain is a
\* strict descendant of the class is neither in domain_of nor in an inherited
\* group
C8_InheritanceDownwardOnly ==
  (PropsReturned /\ Acyclic(PropsGraph)) =>
    \A p \in DescendantOnlyProperties : \A pl \in PropsPlaces : PlaceUri(pl) # p

\* a class with a property of its own and a subclass with another one
C8_Witness ==
  /\ PropsReturned
  /\ Acyclic(PropsGraph)
  /\ DescendantOnlyProperties # {}
  /\ response.body.domain_of # <<>>

SortedCaseInsensitive(props) ==
  \A i \in 1..(Len(props) - 1) :
    ~StrLess(Lower(props[i + 1].label), Lower(props[i].label))

\* C9: domain_of, range_of and the properties of every inherited group are
\* sorted by lowercased label
C9_SortedCaseInsensitive ==
  PropsReturned =>
    /\ SortedCaseInsensitive(response.body.domain_of)
    /\ SortedCaseInsensitive(response.body.range_of)
    /\ \A n \in DOMAIN response.body.inherited :
         SortedCaseInsensitive(response.body.inherited[n].properties)

----------------------------------------------------------------------------
(* The class-properties requests over a property with an enumerated range *)

\* u:a#m
MEM_1 == <<"u",":","a","#","m">>
\* u:a#n
MEM_2 == <<"u",":","a","#","n">>
\* x
LABEL_X == <<"x">>
\* y
LABEL_Y == <<"y">>
\* the blank nodes _:r (a range), _:l and _:k (list nodes), _:z (a list member)
BLANK_R == <<"r">>
BLANK_L == <<"l">>
BLANK_K == <<"k">>
BLANK_Z == <<"z">>

RangeTriples ==
  {Domain(Iri(PROP_P), Iri(CLS_K)),
   HasRange(Iri(PROP_P), BNode(BLANK_R)),
   HasRange(Iri(PROP_P), Iri(CLS_M)),
   <<BNode(BLANK_R), OWL_ONE_OF, BNode(BLANK_L)>>,
   <<BNode(BLANK_L), RDF_FIRST, Iri(MEM_1)>>,
   <<BNode(BLANK_L), RDF_FIRST, BNode(BLANK_Z)>>,
   <<BNode(BLANK_L), RDF_REST, BNode(BLANK_K)>>,
   <<BNode(BLANK_K), RDF_FIRST, Iri(MEM_2)>>,
   <<Iri(MEM_1), RDFS_LABEL, Lit(LABEL_X)>>,
   <<Iri(MEM_1), RDFS_LABEL, Lit(LABEL_Y)>>}

MaxRangeTriples == 6

RangeLoad ==
  \E t \in RangeTriples :
    /\ Cardinality(store[ONTO]) < MaxRangeTriples
    /\ t \notin store[ONTO]
    /\ LoadRdf(ONTO, {t})

RangeGet == GetClassProperties(ONTO, CLS_K)

NextRange == RangeLoad \/ RangeGet

SpecRange == Init /\ [][NextRange]_vars

----------------------------------------------------------------------------
(* Claims about the blank-node range resolution *)

\* the list nodes reached from nodes by following rdf:rest
RECURSIVE ListNodesFrom(_, _)
ListNodesFrom(g, nodes) ==
  LET more == nodes \cup UNION {Objects(g, n, RDF_REST) : n \in nodes}
  IN  IF more = nodes THEN nodes ELSE ListNodesFrom(g, more)

ConcreteRanges(g, p) == {o \in Objects(g, Iri(p), RDFS_RANGE) : o.k # "bnode"}

\* the non-blank members of the owl:oneOf lists of the blank ranges of p
EnumeratedMembers(g, p) ==
  LET blank_ranges == {o \in Objects(g, Iri(p), RDFS_RANGE) : o.k = "bnode"}
      heads == UNION {Objects(g, r, OWL_ONE_OF) : r \in blank_ranges}
  IN  {m \in UNION {Objects(g, n, RDF_FIRST) : n \in ListNodesFrom(g, heads)} : m.k # "bnode"}

RangeUris(prop) == [j \in DOMAIN prop.ranges |-> prop.ranges[j].uri]

\* C10: a domain_of property without a concrete range gets every non-blank
\* member of its owl:oneOf lists (first/rest), each once; a property with a
\* concrete range gets no synthetic range; no range is a blank node
C10_BlankRangeResolution ==
  PropsReturned =>
    \A i \in DOMAIN response.body.domain_of :
      LET prop == response.body.domain_of[i]
          uris == RangeUris(prop)
      IN  /\ ConcreteRanges(PropsGraph, prop.uri) = {} =>
               /\ \A m \in EnumeratedMembers(PropsGraph, prop.uri) : Render(m) \in Range(uris)
               /\ \A j, k \in DOMAIN uris : uris[j] = uris[k] => j = k
          /\ ConcreteRanges(PropsGraph, prop.uri) # {} =>
               Range(uris) = {Render(c) : c \in ConcreteRanges(PropsGraph, prop.uri)}
          /\ \A j \in DOMAIN uris : ~StartsWith(uris[j], BLANK_PREFIX)

----------------------------------------------------------------------------
(* Code List Resolver: _detect_codelist_pattern, get_codelist_info *)

SKOS_IN_SCHEME == "skos:inScheme"
SKOS_MEMBER == "skos:member"
SKOS_PREF_LABEL == "skos:prefLabel"
SKOS_NOTATION == "skos:notation"
SKOS_DEFINITION == "skos:definition"
OWL_EQUIVALENT_CLASS == "owl:equivalentClass"

\* the value of "pattern" when no pattern matches
NoPattern == "None"

\* rdf:rest*: the nodes reached from nodes over zero or more rdf:rest steps
RECURSIVE rest_closure(_, _)
rest_closure(g, nodes) ==
  LET next == nodes \cup UNION {Objects(g, n, RDF_REST) : n \in nodes}
  IN  IF next = nodes THEN nodes ELSE rest_closure(g, next)

\* rdf:rest*/rdf:first from the list heads
list_members(g, heads) == UNION {Objects(g, n, RDF_FIRST) : n \in rest_closure(g, heads)}

\* the members the four COUNT queries count; each count is only compared with 0
skos_members(g, entity) == Subjects(g, SKOS_IN_SCHEME, Iri(entity))

oneof_members(g, entity) == list_members(g, Objects(g, Iri(entity), OWL_ONE_OF))

equiv_oneof_members(g, entity) ==
  list_members(g, UNION {Objects(g, x, OWL_ONE_OF) :
                           x \in Objects(g, Iri(entity), OWL_EQUIVALENT_CLASS)})

collection_members(g, entity) == Objects(g, Iri(entity), SKOS_MEMBER)

\* variant: owl:oneOf on the entity is looked for before skos:inScheme
detect_oneof_first(g, entity) ==
  IF Cardinality(oneof_members(g, entity)) > 0 THEN "owl_oneof"
  ELSE IF Cardinality(skos_members(g, entity)) > 0 THEN "skos_scheme"
  ELSE IF Cardinality(equiv_oneof_members(g, entity)) > 0 THEN "owl_equivalent_oneof"
  ELSE IF Cardinality(collection_members(g, entity)) > 0 THEN "skos_collection"
  ELSE NoPattern

detect_codelist_pattern(g, entity) ==
  IF Cardinality(skos_members(g, entity)) > 0 THEN "skos_scheme"
  ELSE IF Cardinality(oneof_members(g, entity)) > 0 THEN "owl_oneof"
  ELSE IF Cardinality(equiv_oneof_members(g, entity)) > 0 THEN "owl_equivalent_oneof"
  ELSE IF Cardinality(collection_members(g, entity)) > 0 THEN "skos_collection"
  ELSE NoPattern

\* SPARQL's order of terms: unbound, then blank nodes, then IRIs, then literals;
\* two plain literals by their strings
TermRank(t) ==
  CASE t.k = "unbound" -> 0
    [] t.k = "bnode" -> 1
    [] t.k = "iri" -> 2
    [] t.k = "lit" -> 3

TermLess(a, b) ==
  \/ TermRank(a) < TermRank(b)
  \/ TermRank(a) = TermRank(b) /\ StrLess(a.v, b.v)

\* ORDER BY ?notation ?label
RowBefore(a, b) ==
  \/ TermLess(a.notation, b.notation)
  \/ a.notation = b.notation /\ TermLess(a.label, b.label)

ordered_by_notation_label(S) ==
  {rows \in Orders(S) : \A i, j \in DOMAIN rows : i < j => ~RowBefore(rows[j], rows[i])}

\* LIMIT 500
MEMBER_LIMIT == 500

Limit(rows, n) == SubSeq(rows, 1, IF Len(rows) < n THEN Len(rows) ELSE n)

\* the solutions of the two SKOS member queries (SELECT DISTINCT ?member ?label
\* ?notation ?description) for the given members
skos_member_rows(g, members) ==
  UNION {
    {[member |-> m, label |-> l, notation |-> n, description |-> d] :
       l \in Optional(Objects(g, m, SKOS_PREF_LABEL)),
       n \in Optional(Objects(g, m, SKOS_NOTATION)),
       d \in Optional(Objects(g, m, SKOS_DEFINITION))}
    : m \in members}

\* the solutions of the two owl:oneOf member queries (SELECT DISTINCT ?member ?label)
oneof_member_rows(g, members) ==
  UNION {
    {[member |-> m, label |-> l] : l \in Optional(Objects(g, m, RDFS_LABEL))}
    : m \in {x \in members : x.k = "iri"}}

\* the loop over the SKOS rows; ?rdfsLabel is not among the selected variables,
\* so r.get("rdfsLabel") is None
RECURSIVE skos_members_of(_, _)
skos_members_of(results, i) ==
  IF i > Len(results) THEN <<>>
  ELSE LET r == results[i]
           member_uri == Render(r.member)
       IN  (IF Truthy(member_uri)
            THEN <<[uri         |-> member_uri,
                    label       |-> OrElse(Render(r.label),
                                      OrElse(Null, extract_local_name(member_uri))),
                    notation    |-> Render(r.notation),
                    description |-> Render(r.description)]>>
            ELSE <<>>) \o skos_members_of(results, i + 1)

\* the loop over the owl:oneOf rows
RECURSIVE oneof_members_of(_, _)
oneof_members_of(results, i) ==
  IF i > Len(results) THEN <<>>
  ELSE LET r == results[i]
           member_uri == Render(r.member)
       IN  (IF Truthy(member_uri)
            THEN <<[uri         |-> member_uri,
                    label       |-> OrElse(Render(r.label), extract_local_name(member_uri)),
                    notation    |-> Null,
                    description |-> Null]>>
            ELSE <<>>) \o oneof_members_of(results, i + 1)

\* the member lists the branch of the pattern may build, before the final sort
codelist_members(g, entity, pattern) ==
  CASE pattern = "skos_scheme" ->
         {skos_members_of(Limit(rows, MEMBER_LIMIT), 1) :
            rows \in ordered_by_notation_label(skos_member_rows(g, skos_members(g, entity)))}
    [] pattern = "skos_collection" ->
         {skos_members_of(Limit(rows, MEMBER_LIMIT), 1) :
            rows \in ordered_by_notation_label(skos_member_rows(g, collection_members(g, entity)))}
    [] pattern = "owl_oneof" ->
         {oneof_members_of(Limit(rows, MEMBER_LIMIT), 1) :
            rows \in Orders(oneof_member_rows(g, oneof_members(g, entity)))}
    [] pattern = "owl_equivalent_oneof" ->
         {oneof_members_of(Limit(rows, MEMBER_LIMIT), 1) :
            rows \in Orders(oneof_member_rows(g, equiv_oneof_members(g, entity)))}

\* members.sort(key=lambda m: m.label.lower())
sort_members(members) ==
  Sorted(members, [i \in DOMAIN members |-> Lower(members[i].label)])

\* label_query ... LIMIT 1: any one rdfs:label of the entity, or None
entity_labels(g, entity) ==
  {Render(l) : l \in Optional(Objects(g, Iri(entity), RDFS_LABEL))}

\* the store.query calls of _detect_codelist_pattern, in order: it returns at
\* the first count above 0
detection_queries(g, entity) ==
  IF Cardinality(skos_members(g, entity)) > 0 THEN <<"skos_members">>
  ELSE IF Cardinality(oneof_members(g, entity)) > 0 THEN <<"skos_members", "oneof_check">>
  ELSE IF Cardinality(equiv_oneof_members(g, entity)) > 0
       THEN <<"skos_members", "oneof_check", "equiv_oneof_check">>
  ELSE <<"skos_members", "oneof_check", "equiv_oneof_check", "collection_check">>

\* the store.query calls of one get_codelist_info request, in order
codelist_queries(g, entity) ==
  detection_queries(g, entity)
  \o (IF detect_codelist_pattern(g, entity) = NoPattern THEN <<>>
      ELSE <<"label_query", "members_query">>)

\* the bodies get_codelist_info may return; found is FALSE for None
codelist_info(g, entity) ==
  LET pattern == detect_codelist_pattern(g, entity)
  IN  IF pattern = NoPattern THEN {[found |-> FALSE]}
      ELSE UNION {
             {[found        |-> TRUE,
               uri          |-> entity,
               label        |-> OrElse(entity_label, extract_local_name(entity)),
               pattern      |-> pattern,
               member_count |-> Len(members),
               members      |-> sort_members(members)] :
                members \in codelist_members(g, entity, pattern)}
             : entity_label \in entity_labels(g, entity)}

\* GET /api/codelist
GetCodelistInfo(ontology, entity) ==
  /\ \E body \in codelist_info(store[ontology], entity) :
       response' = [kind |-> "codelist", request |-> <<ontology, entity>>, body |-> body,
                    raised |-> NoneRaised,
                    queries |-> codelist_queries(store[ontology], entity)]
  /\ store' = store_query(store)

\* the same request when its store.query call number failing raises
GetCodelistInfoRaising(ontology, entity, failing) ==
  /\ failing \in DOMAIN codelist_queries(store[ontology], entity)
  /\ response' = propagated("codelist", <<ontology, entity>>,
                             codelist_queries(store[ontology], entity)[failing])
  /\ store' = store_query(store)

----------------------------------------------------------------------------
(* The code-list requests over a small ontology *)

\* u:a#S
SCHEME_S == <<"u",":","a","#","S">>
\* 1
NOTATION_1 == <<"1">>
\* 2
NOTATION_2 == <<"2">>
\* Z
LABEL_Z == <<"Z">>

CodeListTriples ==
  {<<Iri(MEM_1), SKOS_IN_SCHEME, Iri(SCHEME_S)>>,
   <<Iri(MEM_2), SKOS_IN_SCHEME, Iri(SCHEME_S)>>,
   <<Iri(SCHEME_S), OWL_ONE_OF, BNode(BLANK_L)>>,
   <<BNode(BLANK_L), RDF_FIRST, Iri(MEM_1)>>,
   <<BNode(BLANK_L), RDF_FIRST, Lit(LABEL_Z)>>,
   <<BNode(BLANK_L), RDF_REST, BNode(BLANK_K)>>,
   <<BNode(BLANK_K), RDF_FIRST, Iri(MEM_2)>>,
   <<Iri(SCHEME_S), OWL_EQUIVALENT_CLASS, BNode(BLANK_R)>>,
   <<BNode(BLANK_R), OWL_ONE_OF, BNode(BLANK_L)>>,
   <<Iri(SCHEME_S), SKOS_MEMBER, Iri(MEM_1)>>,
   <<Iri(SCHEME_S), SKOS_MEMBER, Iri(MEM_2)>>,
   <<Iri(MEM_1), SKOS_NOTATION, Lit(NOTATION_2)>>,
   <<Iri(MEM_1), SKOS_NOTATION, Lit(NOTATION_1)>>,
   <<Iri(MEM_2), SKOS_NOTATION, Lit(NOTATION_1)>>,
   <<Iri(MEM_1), SKOS_PREF_LABEL, Lit(LABEL_Z)>>}

MaxCodeListTriples == 5

CodeListLoad ==
  \E t \in CodeListTriples :
    /\ Cardinality(store[ONTO]) < MaxCodeListTriples
    /\ t \notin store[ONTO]
    /\ LoadRdf(ONTO, {t})

CodeListGet == GetCodelistInfo(ONTO, SCHEME_S)

NextCodeList == CodeListLoad \/ CodeListGet

SpecCodeList == Init /\ [][NextCodeList]_vars

----------------------------------------------------------------------------
(* Claims about get_codelist_info *)

CodelistReturned == response.kind = "codelist"

CodelistGraph == store[response.request[1]]

CodelistEntity == Iri(response.request[2])

\* some list hanging off the given heads has an rdf:first
HasListMember(heads) ==
  \E l \in heads : \E n \in ListNodesFrom(CodelistGraph, {l}) :
    Objects(CodelistGraph, n, RDF_FIRST) # {}

InSchemeMatches == \E t \in CodelistGraph : t[2] = SKOS_IN_SCHEME /\ t[3] = CodelistEntity

OneOfMatches == HasListMember(Objects(CodelistGraph, CodelistEntity, OWL_ONE_OF))

EquivalentOneOfMatches ==
  \E x \in Objects(CodelistGraph, CodelistEntity, OWL_EQUIVALENT_CLASS) :
    HasListMember(Objects(CodelistGraph, x, OWL_ONE_OF))

CollectionMatches == \E t \in CodelistGraph : t[1] = CodelistEntity /\ t[2] = SKOS_MEMBER

\* C5: the pattern reported is the first that matches in the order skos_scheme,
\* owl_oneof, owl_equivalent_oneof, skos_collection; when none matches the
\* answer is "no code list", not an error
C5_DetectionPrecedence ==
  CodelistReturned =>
    IF InSchemeMatches THEN response.body.found /\ response.body.pattern = "skos_scheme"
    ELSE IF OneOfMatches THEN response.body.found /\ response.body.pattern = "owl_oneof"
    ELSE IF EquivalentOneOfMatches
      THEN response.body.found /\ response.body.pattern = "owl_equivalent_oneof"
    ELSE IF CollectionMatches
      THEN response.body.found /\ response.body.pattern = "skos_collection"
    ELSE ~response.body.found

\* an entity with skos:inScheme members and an owl:oneOf list, reported as skos_scheme
C5_Witness ==
  /\ CodelistReturned
  /\ InSchemeMatches
  /\ OneOfMatches
  /\ response.body.found
  /\ response.body.pattern = "skos_scheme"

\* C6: the members come ordered by notation, then by lowercased label: of two
\* members with different notations the one with the smaller notation is first
C6_OrderedByNotation ==
  (CodelistReturned /\ response.body.found) =>
    \A i, j \in DOMAIN response.body.members :
      LET a == response.body.members[i]
          b == response.body.members[j]
      IN  (i < j /\ a.notation # Null /\ b.notation # Null) =>
            /\ ~StrLess(b.notation, a.notation)
            /\ a.notation = b.notation => ~StrLess(Lower(b.label), Lower(a.label))

----------------------------------------------------------------------------
(* _detect_internal_namespaces applied to lists of class URIs *)

\* the call _detect_internal_namespaces(class_uris) with the default threshold
DetectInternalNamespaces(class_uris) ==
  /\ response' = [kind |-> "detected", request |-> class_uris,
                  body |-> detect_internal_namespaces(class_uris)]
  /\ UNCHANGED store

\* s://h/a/1
URI_A1 == <<"s",":","/","/","h","/","a","/","1">>
\* s://h/a/2
URI_A2 == <<"s",":","/","/","h","/","a","/","2">>
\* s://h/a/3
URI_A3 == <<"s",":","/","/","h","/","a","/","3">>
\* s://h/b/1
URI_B1 == <<"s",":","/","/","h","/","b","/","1">>
\* s://h/b/2
URI_B2 == <<"s",":","/","/","h","/","b","/","2">>
\* s://h/b/3
URI_B3 == <<"s",":","/","/","h","/","b","/","3">>
\* s://h/c/1
URI_C1 == <<"s",":","/","/","h","/","c","/","1">>
\* s://g/d/1
URI_D1 == <<"s",":","/","/","g","/","d","/","1">>
\* s://h/e#1
URI_E1 == <<"s",":","/","/","h","/","e","#","1">>

DetectUris ==
  {URI_A1, URI_A2, URI_A3, URI_B1, URI_B2, URI_B3, URI_C1, URI_D1, URI_E1}

\* the URIs of S from the smallest to the largest
RECURSIVE Ascending(_)
Ascending(S) ==
  IF S = {} THEN <<>>
  ELSE LET m == CHOOSE x \in S : \A y \in S : ~StrLess(y, x)
       IN  <<m>> \o Ascending(S \ {m})

Reversed(s) == [i \in DOMAIN s |-> s[Len(s) + 1 - i]]

\* up to this many URIs a list is supplied in every order
MaxPermuted == 3

\* the orders in which the URIs of S are supplied
ListsOf(S) ==
  IF Cardinality(S) <= MaxPermuted THEN Orders(S)
  ELSE {Ascending(S), Reversed(Ascending(S))}

DetectInputs == UNION {ListsOf(S) : S \in SUBSET DetectUris}

\* detection runs on a list that holds the URIs of the previous call and at
\* most one more
DetectStep ==
  \E class_uris \in DetectInputs :
    LET prev == IF response.kind = "detected" THEN Range(response.request) ELSE {}
    IN  /\ prev \subseteq Range(class_uris)
        /\ Cardinality(Range(class_uris)) <= Cardinality(prev) + 1
        /\ DetectInternalNamespaces(class_uris)

NextDetect == DetectStep

SpecDetect == Init /\ [][NextDetect]_vars

----------------------------------------------------------------------------
(* Claims about _detect_internal_namespaces *)

DetectReturned == response.kind = "detected"

\* the substring up to and including the last '#', or failing that the last '/'
NamespaceOf(uri) ==
  LET hashes  == {i \in DOMAIN uri : uri[i] = "#"}
      slashes == {i \in DOMAIN uri : uri[i] = "/"}
  IN  IF hashes # {} THEN SubSeq(uri, 1, MaxOf(hashes))
      ELSE IF slashes # {} THEN SubSeq(uri, 1, MaxOf(slashes))
      ELSE uri

NamespacesOf(class_uris) == {NamespaceOf(class_uris[i]) : i \in DOMAIN class_uris}

UriCount(class_uris, ns) ==
  Cardinality({i \in DOMAIN class_uris : NamespaceOf(class_uris[i]) = ns})

\* max(3, floor(total * 0.05))
MinCountOf(total) ==
  LET scaled == (total * 5) \div 100
  IN  IF scaled >= 3 THEN scaled ELSE 3

MajorOf(class_uris) ==
  {ns \in NamespacesOf(class_uris) : UriCount(class_uris, ns) >= MinCountOf(Len(class_uris))}

SlashPrefixes(ns, n) ==
  LET stripped == RStrip(ns, "/")
  IN  {SubSeq(stripped, 1, k) : k \in
         {j \in DOMAIN stripped :
            /\ stripped[j] = "/"
            /\ Cardinality({i \in 1..j : stripped[i] = "/"}) >= n}}

\* the prefixes at least two major namespaces start with, among the prefixes
\* with at least n '/' of the major namespaces
SharedPrefixes(class_uris, n) ==
  {p \in UNION {SlashPrefixes(ns, n) : ns \in MajorOf(class_uris)} :
     Cardinality({m \in MajorOf(class_uris) : StartsWith(m, p)}) >= 2}

\* scheme://host/ holds three '/'; a prefix with a path holds at least four
SchemeHostSlashes == 3

\* C12: a namespace that is not major is internal only through a prefix longer
\* than scheme and host that two major namespaces share
C12_NoSchemeHostBase ==
  DetectReturned =>
    \A ns \in response.body \ MajorOf(response.request) :
      \E p \in SharedPrefixes(response.request, SchemeHostSlashes + 1) : StartsWith(ns, p)

C14_OrderIndependent ==
  DetectReturned =>
    \A other \in ListsOf(Range(response.request)) :
      detect_internal_namespaces(other) = response.body

\* a non-empty result for a list that is supplied in another order as well
C14_Witness ==
  /\ DetectReturned
  /\ response.body # {}
  /\ \E other \in ListsOf(Range(response.request)) :
       /\ other # response.request
       /\ detect_internal_namespaces(other) = response.body

----------------------------------------------------------------------------
(* The hierarchy requests over classes with labels and owl:deprecated values *)

\* TRUE
LIT_TRUE_UPPER == <<"T","R","U","E">>
\* b
LABEL_B == <<"b">>

ListingTriples ==
  {IsClass(Iri(CLS_A)), IsClass(Iri(CLS_E)), IsClass(Iri(CLS_F)),
   <<Iri(CLS_A), OWL_DEPRECATED, Lit(LIT_TRUE)>>,
   <<Iri(CLS_A), OWL_DEPRECATED, Lit(LIT_FALSE)>>,
   <<Iri(CLS_E), OWL_DEPRECATED, Lit(LIT_TRUE_UPPER)>>,
   SubClassOf(Iri(CLS_A), Iri(CLS_E)), SubClassOf(Iri(CLS_A), Iri(CLS_F)),
   <<Iri(CLS_A), RDFS_LABEL, Lit(LABEL_B)>>}

MaxListingTriples == 5

ListingLoad ==
  \E t \in ListingTriples :
    /\ Cardinality(store[ONTO]) < MaxListingTriples
    /\ t \notin store[ONTO]
    /\ LoadRdf(ONTO, {t})

ListingSave ==
  \E show_deprecated \in BOOLEAN :
    SaveOntologyConfig(ONTO, {}, MODE_LABEL, show_deprecated)

ListingGet == GetClassHierarchy(ONTO)

NextListing == ListingLoad \/ ListingSave \/ ListingGet

SpecListing == Init /\ [][NextListing]_vars

----------------------------------------------------------------------------
(* Claims about the deprecated filter and the order of the hierarchy *)

\* show_deprecated of the stored OntologyConfig; false when nothing is stored
StoredShowDeprecated ==
  \E o \in Objects(store[AIT_META_GRAPH], Iri(response.request), AIT_SHOW_DEPRECATED) :
    Lower(o.v) = LIT_TRUE

\* the declared classes with an owl:deprecated value that reads "true"
DeprecatedClasses(g) ==
  {c \in DeclaredClasses(g) :
     \E o \in Objects(g, Iri(c), OWL_DEPRECATED) : Lower(o.v) = LIT_TRUE}

\* C15: with show_deprecated false no class with an owl:deprecated value "true"
\* (in any case) is returned; with show_deprecated true every such class is
\* returned with is_deprecated = true
C15_DeprecatedFilter ==
  HierarchyReturned =>
    IF ~StoredShowDeprecated
    THEN \A i \in DOMAIN HierNodes : HierNodes[i].uri \notin DeprecatedClasses(HierGraph)
    ELSE \A c \in DeprecatedClasses(HierGraph) :
           \E i \in DOMAIN HierNodes : HierNodes[i].uri = c /\ HierNodes[i].is_deprecated

\* the label a class is listed under: an rdfs:label, or the local name
LabelsOf(g, c) ==
  LET labels == {o.v : o \in Objects(g, Iri(c), RDFS_LABEL)} \ {<<>>}
  IN  IF labels = {} THEN {extract_local_name(c)} ELSE labels

\* C16: the returned nodes are in the order of their lowercased labels, and a
\* class without rdfs:label has its local name as label
C16_SortedByLowercasedLabel ==
  HierarchyReturned =>
    /\ \A i \in 1..(Len(HierNodes) - 1) :
         ~StrLess(Lower(HierNodes[i + 1].label), Lower(HierNodes[i].label))
    /\ \A i \in DOMAIN HierNodes :
         HierNodes[i].label \in LabelsOf(HierGraph, HierNodes[i].uri)

\* a labelled class listed before an unlabelled one that a case-sensitive order
\* would list first
C16_Witness ==
  /\ HierarchyReturned
  /\ \E i \in 1..(Len(HierNodes) - 1) :
       /\ StrLess(HierNodes[i + 1].label, HierNodes[i].label)
       /\ Objects(HierGraph, Iri(HierNodes[i].uri), RDFS_LABEL) # {}
       /\ Objects(HierGraph, Iri(HierNodes[i + 1].uri), RDFS_LABEL) = {}

\* C17: no member URI occurs twice in the members of a code list, and
\* member_count is the number of distinct members
C17_MembersDeduplicated ==
  (CodelistReturned /\ response.body.found) =>
    /\ \A i, j \in DOMAIN response.body.members :
         response.body.members[i].uri = response.body.members[j].uri => i = j
    /\ response.body.member_count
         = Cardinality({response.body.members[i].uri : i \in DOMAIN response.body.members})

----------------------------------------------------------------------------
(* The class-properties requests over a long subclass chain *)

DIGITS == <<"0", "1", "2", "3", "4", "5", "6", "7", "8", "9">>

\* u:c#k00, u:c#k01, ...: the classes of the chain document
ChainClass(i) ==
  <<"u", ":", "c", "#", "k">> \o <<DIGITS[(i \div 10) + 1], DIGITS[(i % 10) + 1]>>

\* the chain document declares k00 < k01 < ... < k(ChainLength)
ChainLength == 52

ChainDocument ==
  {IsClass(Iri(ChainClass(0)))}
  \cup {SubClassOf(Iri(ChainClass(i)), Iri(ChainClass(i + 1))) : i \in 0..(ChainLength - 1)}

\* further triples: an edge that closes the chain to a cycle, a self-loop, a
\* second parent of k00 and of k01, and properties along the chain
ChainTriples ==
  {SubClassOf(Iri(ChainClass(ChainLength)), Iri(ChainClass(0))),
   SubClassOf(Iri(ChainClass(0)), Iri(ChainClass(0))),
   SubClassOf(Iri(ChainClass(0)), Iri(CLS_M)),
   SubClassOf(Iri(ChainClass(1)), Iri(OWL_THING)),
   Domain(Iri(PROP_P), Iri(CLS_M)),
   Domain(Iri(PROP_P), Iri(ChainClass(MAX_CHAIN_DEPTH))),
   Domain(Iri(PROP_Q), Iri(ChainClass(MAX_CHAIN_DEPTH + 1)))}

\* Store.load_rdf of the chain document
ChainLoadDocument == LoadRdf(ONTO, ChainDocument)

ChainLoad ==
  \E t \in ChainTriples :
    /\ t \notin store[ONTO]
    /\ LoadRdf(ONTO, {t})

ChainGet == \E class_uri \in {ChainClass(0), ChainClass(1)} : GetClassProperties(ONTO, class_uri)

NextChain == ChainLoadDocument \/ ChainLoad \/ ChainGet

SpecChain == Init /\ [][NextChain]_vars

----------------------------------------------------------------------------
(* Claims about _get_superclass_chain *)

ChainUris == [i \in DOMAIN response.body.superclasses |-> response.body.superclasses[i].uri]

----------------------------------------------------------------------------
(* The traversals one iteration at a time: the chain walk of
   _get_superclass_chain, the breadcrumb walk of get_entity_info and the
   search has_internal_descendant of get_class_hierarchy.  A request runs
   from its start to its return without another request in between. *)

\* http://www.w3.org/2004/02/skos/core#ConceptScheme
SKOS_CONCEPT_SCHEME == <<"h","t","t","p",":","/","/","w","w","w",".","w","3",".","o","r","g","/","2","0","0","4","/","0","2","/","s","k","o","s","/","c","o","r","e","#","C","o","n","c","e","p","t","S","c","h","e","m","e">>
\* http://www.w3.org/2004/02/skos/core#Concept
SKOS_CONCEPT == <<"h","t","t","p",":","/","/","w","w","w",".","w","3",".","o","r","g","/","2","0","0","4","/","0","2","/","s","k","o","s","/","c","o","r","e","#","C","o","n","c","e","p","t">>
\* http://www.w3.org/2002/07/owl#NamedIndividual
OWL_NAMED_INDIVIDUAL == <<"h","t","t","p",":","/","/","w","w","w",".","w","3",".","o","r","g","/","2","0","0","2","/","0","7","/","o","w","l","#","N","a","m","e","d","I","n","d","i","v","i","d","u","a","l">>

\* for _ in range(20)
MAX_BREADCRUMB_DEPTH == 20

\* _detect_entity_type
detect_entity_type(g, entity_uri) ==
  LET types == {v \in {Render(o) : o \in Objects(g, Iri(entity_uri), RDF_TYPE)} : Truthy(v)}
  IN  IF SKOS_CONCEPT_SCHEME \in types THEN "ConceptScheme"
      ELSE IF SKOS_CONCEPT \in types THEN "Concept"
      ELSE IF OWL_CLASS \in types \/ RDFS_CLASS \in types THEN "Class"
      ELSE IF OWL_OBJECT_PROPERTY \in types THEN "ObjectProperty"
      ELSE IF OWL_DATATYPE_PROPERTY \in types THEN "DatatypeProperty"
      ELSE IF OWL_ANNOTATION_PROPERTY \in types THEN "AnnotationProperty"
      ELSE IF OWL_NAMED_INDIVIDUAL \in types THEN "NamedIndividual"
      ELSE "Unknown"

\* the solutions of the parent_query of get_entity_info for the class current
breadcrumb_rows(g, current) ==
  UNION {
    {[parent          |-> Render(p),
      parentLabel     |-> Render(l),
      parentPrefixIRI |-> Render(x)] :
       l \in Optional(Objects(g, p, RDFS_LABEL)),
       x \in Optional(Objects(g, p, PREFIX_IRI))}
    : p \in {o \in Objects(g, Iri(current), RDFS_SUBCLASSOF) : o.k = "iri"}}

\* the state of the breadcrumb walk before its first iteration; the walk is
\* made for classes only
breadcrumb_start(g, entity) ==
  [current      |-> entity,
   visited      |-> {entity},
   superclasses |-> <<>>,
   done         |-> detect_entity_type(g, entity) # "Class"]

\* one iteration of the breadcrumb loop; LIMIT 1 hands back any one of the
\* solutions
breadcrumb_step(g, walk) ==
  IF walk.done THEN {walk}
  ELSE IF breadcrumb_rows(g, walk.current) = {} THEN {[walk EXCEPT !.done = TRUE]}
  ELSE {IF ~Truthy(row.parent) \/ row.parent \in walk.visited
        THEN [walk EXCEPT !.done = TRUE]
        ELSE [current      |-> row.parent,
              visited      |-> walk.visited \cup {row.parent},
              superclasses |-> Append(walk.superclasses,
                                 [uri        |-> row.parent,
                                  label      |-> OrElse(row.parentLabel,
                                                        extract_local_name(row.parent)),
                                  prefix_iri |-> row.parentPrefixIRI]),
              done         |-> FALSE]
        : row \in breadcrumb_rows(g, walk.current)}

\* get_class_hierarchy when its rows are read: n is the place of the loop
\* "for uri, node in nodes.items()", stack holds the calls of
\* has_internal_descendant in progress, each with the place i of its loop over
\* the children, result the value the last call returned, entered the classes
\* the current search went into
promotion_start(rows, config, internal_namespaces) ==
  LET st == hierarchy_rows_loop(
              [nodes |-> <<>>, children_map |-> <<>>, deprecated_classes |-> {}],
              class_data(rows), 1, internal_namespaces)
  IN  [nodes               |-> st.nodes,
       children_map        |-> st.children_map,
       internal_namespaces |-> internal_namespaces,
       config              |-> config,
       n                   |-> 1,
       stack               |-> <<>>,
       visited             |-> {},
       result              |-> "none",
       entered             |-> <<>>]

\* variant: the search goes into a class whether or not it has been there
promotion_call_unguarded(search, uri) ==
  [search EXCEPT !.visited = @ \cup {uri},
                 !.stack   = Append(@, [uri |-> uri, i |-> 1]),
                 !.entered = Append(@, uri)]

\* a call of has_internal_descendant(uri, visited), up to its loop
promotion_call(search, uri) ==
  IF uri \in search.visited THEN [search EXCEPT !.result = "false"]
  ELSE [search EXCEPT !.visited = @ \cup {uri},
                      !.stack   = Append(@, [uri |-> uri, i |-> 1]),
                      !.entered = Append(@, uri)]

\* the loop over the nodes has ended
promotion_finished(search) ==
  search.stack = <<>> /\ search.result = "none" /\ search.n > Len(search.nodes)

\* the next step of the promotion: of the loop over the nodes when no call is
\* in progress, else of the innermost call
promotion_step(search) ==
  LET depth == Len(search.stack)
  IN  IF depth = 0
      THEN IF search.result # "none"
           THEN [search EXCEPT !.nodes[search.n].is_external =
                                  IF search.result = "true" THEN FALSE ELSE @,
                               !.n = @ + 1,
                               !.result = "none"]
           ELSE IF search.nodes[search.n].is_external
           THEN promotion_call([search EXCEPT !.visited = {}, !.entered = <<>>],
                               search.nodes[search.n].uri)
           ELSE [search EXCEPT !.n = @ + 1]
      ELSE LET frame    == search.stack[depth]
               children == IF frame.uri \in DOMAIN search.children_map
                           THEN search.children_map[frame.uri] ELSE <<>>
               returned == SubSeq(search.stack, 1, depth - 1)
           IN  IF search.result = "true" THEN [search EXCEPT !.stack = returned]
               ELSE IF search.result = "false"
               THEN [search EXCEPT !.stack[depth].i = @ + 1, !.result = "none"]
               ELSE IF frame.i > Len(children)
               THEN [search EXCEPT !.stack = returned, !.result = "false"]
               ELSE IF children[frame.i] \notin NodeUris(search.nodes)
               THEN [search EXCEPT !.stack[depth].i = @ + 1]
               ELSE IF ~is_external(children[frame.i], search.internal_namespaces)
               THEN [search EXCEPT !.stack = returned, !.result = "true"]
               ELSE promotion_call(search, children[frame.i])

Walking == response.kind = "walking"

Walked == response.kind = "walked"

\* _get_superclass_chain is called
ChainWalkStart(ontology, class_uri) ==
  /\ ~Walking
  /\ response' = [kind    |-> "walking",
                  request |-> [walk |-> "chain", ontology |-> ontology, entity |-> class_uri],
                  body    |-> [walk |-> chain_start(class_uri), hops |-> 0]]
  /\ UNCHANGED store

\* one more iteration of "for _ in range(50)"
ChainWalkStep ==
  /\ Walking /\ response.request.walk = "chain"
  /\ ~response.body.walk.done /\ response.body.hops < MAX_CHAIN_DEPTH
  /\ \E walk \in chain_step(store[response.request.ontology], response.body.walk) :
       response' = [response EXCEPT !.body = [walk |-> walk, hops |-> @.hops + 1]]
  /\ UNCHANGED store

\* return superclasses
ChainWalkReturn ==
  /\ Walking /\ response.request.walk = "chain"
  /\ response.body.walk.done \/ response.body.hops = MAX_CHAIN_DEPTH
  /\ response' = [response EXCEPT !.kind = "walked", !.body = @.walk.superclasses]
  /\ UNCHANGED store

\* get_entity_info comes to its breadcrumb
BreadcrumbWalkStart(ontology, entity) ==
  /\ ~Walking
  /\ response' = [kind    |-> "walking",
                  request |-> [walk |-> "breadcrumb", ontology |-> ontology, entity |-> entity],
                  body    |-> [walk |-> breadcrumb_start(store[ontology], entity), hops |-> 0]]
  /\ UNCHANGED store

\* one more iteration of "for _ in range(20)"
BreadcrumbWalkStep ==
  /\ Walking /\ response.request.walk = "breadcrumb"
  /\ ~response.body.walk.done /\ response.body.hops < MAX_BREADCRUMB_DEPTH
  /\ \E walk \in breadcrumb_step(store[response.request.ontology], response.body.walk) :
       response' = [response EXCEPT !.body = [walk |-> walk, hops |-> @.hops + 1]]
  /\ UNCHANGED store

\* the breadcrumb is complete
BreadcrumbWalkReturn ==
  /\ Walking /\ response.request.walk = "breadcrumb"
  /\ response.body.walk.done \/ response.body.hops = MAX_BREADCRUMB_DEPTH
  /\ response' = [response EXCEPT !.kind = "walked", !.body = @.walk.superclasses]
  /\ UNCHANGED store

\* get_class_hierarchy has read its rows and comes to the promotion
PromotionWalkStart(ontology_uri) ==
  /\ ~Walking
  /\ \E rows \in Orders(hierarchy_rows(store[ontology_uri])) :
     \E config \in get_ontology_config(store, ontology_uri) :
     \E internal_namespaces \in internal_namespaces_of(config, class_data(rows)) :
       response' = [kind    |-> "walking",
                    request |-> [walk |-> "promotion", ontology |-> ontology_uri,
                                 entity |-> <<>>],
                    body    |-> promotion_start(rows, config, internal_namespaces)]
  /\ UNCHANGED store

PromotionWalkStep ==
  /\ Walking /\ response.request.walk = "promotion"
  /\ ~promotion_finished(response.body)
  /\ response' = [response EXCEPT !.body = promotion_step(@)]
  /\ UNCHANGED store

\* the filter, the sort and the return of get_class_hierarchy
PromotionWalkReturn ==
  /\ Walking /\ response.request.walk = "promotion"
  /\ promotion_finished(response.body)
  /\ response' = [response EXCEPT
                    !.kind = "walked",
                    !.body = [nodes |-> hierarchy_result(@.nodes, @.config),
                              internal_namespaces |-> @.internal_namespaces]]
  /\ UNCHANGED store

----------------------------------------------------------------------------
(* The traversals over a long chain and a small cyclic ontology *)

\* the triples of the small ontology: classes A, E and F, the cycle E < F < E
\* and the internal class A below E
WalkTriples ==
  {IsClass(Iri(CLS_A)), IsClass(Iri(CLS_E)), IsClass(Iri(CLS_F)),
   SubClassOf(Iri(CLS_E), Iri(CLS_F)), SubClassOf(Iri(CLS_F), Iri(CLS_E)),
   SubClassOf(Iri(CLS_A), Iri(CLS_E))}

MaxWalkTriples == 4

\* <<ontology, entity>>: the first class of the long chain, and the classes A
\* and E of the small ontology
WalkRequests == {<<ONTO_B, ChainClass(0)>>, <<ONTO, CLS_A>>, <<ONTO, CLS_E>>}

WalkLoadDocument == ~Walking /\ LoadRdf(ONTO_B, ChainDocument)

WalkLoad ==
  /\ ~Walking
  /\ \E t \in WalkTriples :
       /\ Cardinality(store[ONTO]) < MaxWalkTriples
       /\ t \notin store[ONTO]
       /\ LoadRdf(ONTO, {t})

WalkSave == ~Walking /\ SaveOntologyConfig(ONTO, {NS_A}, MODE_LABEL, FALSE)

WalkStart ==
  \/ \E r \in WalkRequests : ChainWalkStart(r[1], r[2])
  \/ \E r \in WalkRequests : BreadcrumbWalkStart(r[1], r[2])
  \/ PromotionWalkStart(ONTO)

WalkStep == ChainWalkStep \/ BreadcrumbWalkStep \/ PromotionWalkStep

WalkReturn == ChainWalkReturn \/ BreadcrumbWalkReturn \/ PromotionWalkReturn

NextWalk == WalkLoadDocument \/ WalkLoad \/ WalkSave \/ WalkStart \/ WalkStep \/ WalkReturn

\* a request that has started keeps running
SpecWalk == Init /\ [][NextWalk]_vars /\ WF_vars(WalkStep) /\ WF_vars(WalkReturn)

----------------------------------------------------------------------------
(* Claims about the termination of the traversals *)

\* the iterations the walk in progress has made
WalkHops == response.body.hops

\* the calls of has_internal_descendant in progress went into different classes
SearchEnteredOnce ==
  \A i, j \in DOMAIN response.body.entered :
    response.body.entered[i] = response.body.entered[j] => i = j

WalkBounded ==
  Walking =>
    /\ response.request.walk = "chain" => WalkHops <= 50
    /\ response.request.walk = "breadcrumb" => WalkHops <= 20
    /\ response.request.walk = "promotion" => SearchEnteredOnce

\* C20: every traversal ends: the search of the promotion goes into a class at
\* most once per start, the chain walk makes at most 50 iterations, the
\* breadcrumb walk at most 20, and a request that has started returns
C20_TraversalsTerminate == [](WalkBounded) /\ (Walking ~> Walked)

\* the search of the promotion is at a child it has been into before: a cycle
\* of external classes, met through the visited check
C20_Witness ==
  /\ Walking /\ response.request.walk = "promotion"
  /\ response.body.stack # <<>> /\ response.body.result = "none"
  /\ LET frame == response.body.stack[Len(response.body.stack)]
     IN  /\ frame.uri \in DOMAIN response.body.children_map
         /\ frame.i <= Len(response.body.children_map[frame.uri])
         /\ response.body.children_map[frame.uri][frame.i] \in response.body.visited
         /\ response.body.children_map[frame.uri][frame.i] \in NodeUris(response.body.nodes)
         /\ is_external(response.body.children_map[frame.uri][frame.i],
                        response.body.internal_namespaces)

----------------------------------------------------------------------------
(* The configuration requests over two ontologies *)


ConfigOntologies == {ONTO, ONTO_B}

ConfigSelections == {{}} \cup SavedSelections

ConfigModes == SavedModes

\* GET /api/ontologies/{ontology_uri}/config
GetOntologyConfig(ontology_uri) ==
  /\ \E config \in get_ontology_config(store, ontology_uri) :
       response' = [kind |-> "configuration", request |-> ontology_uri, body |-> config]
  /\ UNCHANGED store

ConfigSave ==
  \E ontology_uri \in ConfigOntologies, namespaces \in ConfigSelections,
     display_name_mode \in ConfigModes, show_deprecated \in BOOLEAN :
    SaveOntologyConfig(ontology_uri, namespaces, display_name_mode, show_deprecated)

ConfigGet == \E ontology_uri \in ConfigOntologies : GetOntologyConfig(ontology_uri)

NextConfig == ConfigSave \/ ConfigGet

SpecConfig == Init /\ [][NextConfig]_vars

----------------------------------------------------------------------------
(* Claims about OntologyConfig *)

\* the values the meta graph holds for one predicate of an ontology
ConfigValues(st, ontology_uri, predicate) ==
  Objects(st[AIT_META_GRAPH], Iri(ontology_uri), predicate)

SaveReturned == response'.kind = "config"

SaveFailed == response'.kind = "error"

\* C21: after a save returns, the configuration read for its ontology is exactly
\* what was saved, with one displayNameMode and one showDeprecated value in the
\* meta graph; after a save fails, the configuration read is the one from
\* before the save
C21_OverwrittenWholesale ==
  [][/\ SaveReturned =>
          /\ get_ontology_config(store', response'.request) = {response'.body}
          /\ Cardinality(ConfigValues(store', response'.request, AIT_DISPLAY_NAME_MODE)) = 1
          /\ Cardinality(ConfigValues(store', response'.request, AIT_SHOW_DEPRECATED)) = 1
     /\ SaveFailed =>
          get_ontology_config(store', response'.request)
            = get_ontology_config(store, response'.request)]_vars

----------------------------------------------------------------------------
(* The three introspection requests over two ontologies, with a gateway that
   may raise *)

ReadsOntologies == {ONTO, ONTO_B}

\* u:o holds any few of these triples; u:p never holds one
ReadsTriples ==
  {IsClass(Iri(CLS_A)), IsClass(Iri(CLS_E)), SubClassOf(Iri(CLS_A), Iri(CLS_E)),
   Domain(Iri(PROP_P), Iri(CLS_A)), Domain(Iri(PROP_Q), Iri(CLS_E)),
   HasRange(Iri(PROP_P), Iri(CLS_A)),
   <<Iri(MEM_1), SKOS_IN_SCHEME, Iri(SCHEME_S)>>,
   <<Iri(SCHEME_S), SKOS_MEMBER, Iri(MEM_1)>>}

MaxReadsTriples == 3

ReadsLoad ==
  \E t \in ReadsTriples :
    /\ Cardinality(store[ONTO]) < MaxReadsTriples
    /\ t \notin store[ONTO]
    /\ LoadRdf(ONTO, {t})

ReadsSave ==
  \E ontology_uri \in ReadsOntologies :
    SaveOntologyConfig(ontology_uri, {NS_A}, MODE_LABEL, FALSE)

ReadsHierarchy == \E ontology_uri \in ReadsOntologies : GetClassHierarchy(ontology_uri)

ReadsProperties == \E ontology \in ReadsOntologies : GetClassProperties(ontology, CLS_A)

ReadsCodelist == \E ontology \in ReadsOntologies : GetCodelistInfo(ontology, SCHEME_S)

ReadsHierarchyRaising ==
  \E ontology_uri \in ReadsOntologies, failing \in Range(hierarchy_queries) :
    GetClassHierarchyRaising(ontology_uri, failing)

ReadsPropertiesRaising ==
  \E ontology \in ReadsOntologies,
     failing \in {"domain_query", "parent_query", "ancestor_domain_query", "range_query"} :
    GetClassPropertiesRaising(ontology, CLS_A, failing)

ReadsCodelistRaising ==
  \E ontology \in ReadsOntologies, failing \in 1..6 :
    GetCodelistInfoRaising(ontology, SCHEME_S, failing)

NextReads ==
  \/ ReadsLoad
  \/ ReadsSave
  \/ ReadsHierarchy
  \/ ReadsProperties
  \/ ReadsCodelist
  \/ ReadsHierarchyRaising
  \/ ReadsPropertiesRaising
  \/ ReadsCodelistRaising

SpecReads == Init /\ [][NextReads]_vars

ReadKinds == {"hierarchy", "properties", "codelist", "failed"}

\* C22: a step that answers a hierarchy, class-properties or code-list request,
\* with a result or with a failure, leaves every graph of the store, the
\* ontology graphs and the meta graph, as it was
C22_ReadsLeaveStoreUnchanged == [][response'.kind \in ReadKinds => store' = store]_vars

\* a read answered while the ontology graph and the meta graph hold triples
C22_Witness ==
  /\ response.kind \in {"hierarchy", "properties", "codelist"}
  /\ response.raised = NoneRaised
  /\ store[ONTO] # {}
  /\ store[AIT_META_GRAPH] # {}

\* C23: when a store.query call of a hierarchy, class-properties or code-list
\* request raises, the request fails and carries that error; it does not answer
\* with a result
C23_FailurePropagated ==
  (response.kind \in ReadKinds /\ response.raised # NoneRaised)
    => (response.kind = "failed" /\ response.body = response.raised)

\* the range query of a class-properties request raised after the domain query
\* had found a property of the class
C23_Witness ==
  /\ response.kind = "failed"
  /\ response.request = <<ONTO, CLS_A>>
  /\ response.raised = "range_query"
  /\ Domain(Iri(PROP_P), Iri(CLS_A)) \in store[ONTO]

\* the graph declares no owl:Class and no rdfs:Class
NoClasses(g) ==
  Subjects(g, RDF_TYPE, Iri(OWL_CLASS)) \cup Subjects(g, RDF_TYPE, Iri(RDFS_CLASS)) = {}

EmptyProperties(body) ==
  body.domain_of = <<>> /\ body.inherited = <<>> /\ body.range_of = <<>>

\* C24 as stated: for a graph without triples or without classes the hierarchy
\* is the empty list and the class properties are empty
C24_NoClassesIsEmpty ==
  /\ (response.kind = "hierarchy" /\ NoClasses(store[response.request]))
       => response.body.nodes = <<>>
  /\ (response.kind = "properties" /\ NoClasses(store[response.request[1]]))
       => EmptyProperties(response.body)

\* C24: for a graph without classes the hierarchy is the empty list, and for a
\* graph without triples the class properties are empty, whatever the meta
\* graph holds; neither request fails unless the gateway raises
C24_NotFoundIsEmpty ==
  /\ (response.kind = "hierarchy" /\ NoClasses(store[response.request]))
       => response.body.nodes = <<>>
  /\ (response.kind = "properties" /\ store[response.request[1]] = {})
       => EmptyProperties(response.body)

\* a hierarchy request for a graph that holds triples but no class, answered
\* with the empty list while a configuration is stored for the ontology
C24_Witness ==
  /\ response.kind = "hierarchy"
  /\ response.request = ONTO
  /\ NoClasses(store[ONTO])
  /\ SubClassOf(Iri(CLS_A), Iri(CLS_E)) \in store[ONTO]
  /\ ConfigValues(store, ONTO, AIT_SELECTED_NAMESPACE) # {}
  /\ response.body.nodes = <<>>

----------------------------------------------------------------------------
(* The number of gateway calls of a code-list request *)

\* C26: a code-list request issues at most five store.query calls, four of the
\* detection and one of the resolution
C26_AtMostFiveQueries == response.kind = "codelist" => Len(response.queries) <= 5

----------------------------------------------------------------------------
(* The store under load_rdf, clear, graphs and len *)

\* two triples a document may hold
STORE_TRIPLE_1 == <<Iri(CLS_A), RDFS_LABEL, Lit(LABEL_Z)>>

STORE_TRIPLE_2 == <<Iri(CLS_E), RDFS_LABEL, Lit(LABEL_Z)>>

StoreTriples == {STORE_TRIPLE_1, STORE_TRIPLE_2}

\* the graph names of the calls: two named graphs, the meta graph, and None
StoreGraphNames == {ONTO, ONTO_B, AIT_META_GRAPH, Null}

StoreLoad ==
  \E graph_name \in StoreGraphNames, triples \in SUBSET StoreTriples :
    LoadRdf(graph_name, triples)

StoreClear == \E graph_name \in StoreGraphNames : Clear(graph_name)

NextStore == StoreLoad \/ StoreClear \/ Graphs \/ StoreLen

SpecStore == Init /\ [][NextStore]_vars

Cleared == response'.kind = "cleared"

\* C25: clear(graph_name=g) leaves g without triples and unlisted and every
\* other graph as it was; clear() leaves the store with size 0; graphs() lists
\* exactly the named graphs that hold a triple
C25_ClearAndGraphs ==
  [][/\ (Cleared /\ Truthy(response'.request)) =>
          /\ store'[response'.request] = {}
          /\ response'.request \notin graphs(store')
          /\ \A g \in DOMAIN store \ {response'.request} : store'[g] = store[g]
     /\ (Cleared /\ ~Truthy(response'.request)) => store_len(store') = 0
     /\ response'.kind = "graphs" =>
          response'.body = {g \in {ONTO, ONTO_B, AIT_META_GRAPH} : Cardinality(store[g]) >= 1}
     /\ response'.kind = "len" =>
          (response'.body = 0 <=> \A g \in DOMAIN store : store[g] = {})]_vars

\* u:o was cleared while u:p and the default graph hold triples
C25_Witness ==
  /\ response.kind = "cleared"
  /\ response.request = ONTO
  /\ store[ONTO] = {}
  /\ store[ONTO_B] = StoreTriples
  /\ store[DefaultGraph] # {}

----------------------------------------------------------------------------
(* The external flag of the hierarchy, in both directions *)

InternalNamespace(uri) == extract_namespace(uri) \in response.body.internal_namespaces

\* C27: a returned node is marked is_external = false only if its namespace is
\* internal or one of its descendants has an internal namespace; a node of an
\* internal namespace is never marked external, so an external node without an
\* internal descendant, on a cycle of external classes too, stays external
C27_ExternalFlagExact ==
  HierarchyReturned =>
    \A i \in DOMAIN HierNodes :
      /\ HierNodes[i].is_external = FALSE =>
           (InternalNamespace(HierNodes[i].uri) \/ HasInternalBelow(HierNodes[i].uri))
      /\ InternalNamespace(HierNodes[i].uri) => HierNodes[i].is_external = FALSE

\* two external classes that are subclasses of each other are returned as
\* external next to a class of an internal namespace
C27_Witness ==
  /\ HierarchyReturned
  /\ {SubClassOf(Iri(CLS_E), Iri(CLS_F)), SubClassOf(Iri(CLS_F), Iri(CLS_E))} \subseteq HierGraph
  /\ \E i, j, k \in DOMAIN HierNodes :
       /\ HierNodes[i].uri = CLS_E /\ HierNodes[i].is_external = TRUE
       /\ HierNodes[j].uri = CLS_F /\ HierNodes[j].is_external = TRUE
       /\ InternalNamespace(HierNodes[k].uri) /\ HierNodes[k].is_external = FALSE

----------------------------------------------------------------------------
(* Detection against resolution *)

\* C28: a code list returned for a detected pattern has at least one member
C28_DetectedHasMembers ==
  (response.kind = "codelist" /\ response.body.found)
    => (response.body.member_count >= 1 /\ response.body.members # <<>>)

----------------------------------------------------------------------------
(* Refresh of an ontology, the stored prefixes and the list of ontologies *)

\* [A-Za-z0-9_-]
ACRONYM_CHARS ==
  {c \in CharSet : \/ Ord[c] >= Ord["A"] /\ Ord[c] <= Ord["Z"]
                   \/ Ord[c] >= Ord["a"] /\ Ord[c] <= Ord["z"]
                   \/ Ord[c] >= Ord["0"] /\ Ord[c] <= Ord["9"]
                   \/ c \in {"_", "-"}}

\* https?://
URL_SCHEMES == {<<"h","t","t","p",":","/","/">>, <<"h","t","t","p","s",":","/","/">>}

\* /ontologies/
ONTOLOGIES_PATH == <<"/","o","n","t","o","l","o","g","i","e","s","/">>

\* the hosts of the patterns, in the order of the list
ONTOPORTAL_URL_PATTERNS ==
  <<[host |-> <<"b","i","o","p","o","r","t","a","l",".","b","i","o","o","n","t","o","l","o","g","y",".","o","r","g">>,
     instance |-> "BIOPORTAL"],
    [host |-> <<"d","a","t","a",".","b","i","o","o","n","t","o","l","o","g","y",".","o","r","g">>,
     instance |-> "BIOPORTAL"],
    [host |-> <<"a","g","r","o","p","o","r","t","a","l",".","l","i","r","m","m",".","f","r">>,
     instance |-> "AGROPORTAL"],
    [host |-> <<"d","a","t","a",".","a","g","r","o","p","o","r","t","a","l",".","l","i","r","m","m",".","f","r">>,
     instance |-> "AGROPORTAL"],
    [host |-> <<"e","c","o","p","o","r","t","a","l",".","l","i","f","e","w","a","t","c","h",".","e","u">>,
     instance |-> "ECOPORTAL"],
    [host |-> <<"d","a","t","a",".","e","c","o","p","o","r","t","a","l",".","l","i","f","e","w","a","t","c","h",".","e","u">>,
     instance |-> "ECOPORTAL"],
    [host |-> <<"m","a","t","p","o","r","t","a","l",".","o","r","g">>,
     instance |-> "MATPORTAL"],
    [host |-> <<"d","a","t","a",".","m","a","t","p","o","r","t","a","l",".","o","r","g">>,
     instance |-> "MATPORTAL"]>>

\* str.strip() for blanks
RECURSIVE Strip(_)
Strip(s) ==
  IF s # <<>> /\ s[1] = " " THEN Strip(Tail(s))
  ELSE IF s # <<>> /\ s[Len(s)] = " " THEN Strip(SubSeq(s, 1, Len(s) - 1))
  ELSE s

\* the text group 1 of the match takes after the head: the longest run of
\* acronym characters
acronym_after(url, head) ==
  SubSeq(url, Len(head) + 1,
         MaxOf({j \in Len(head)..Len(url) :
                  \A i \in (Len(head) + 1)..j : url[i] \in ACRONYM_CHARS}))

\* re.match(pattern, url): group 1, or None
pattern_match(host, url) ==
  LET heads == {h \in {scheme \o host \o ONTOLOGIES_PATH : scheme \in URL_SCHEMES} :
                  StartsWith(url, h)}
  IN  IF heads = {} THEN Null
      ELSE IF acronym_after(url, CHOOSE h \in heads : TRUE) = <<>> THEN Null
      ELSE acronym_after(url, CHOOSE h \in heads : TRUE)

NotRecognized == [instance |-> "None", acronym |-> Null]

\* the first pattern of the list that matches the stripped url
first_match(url, hits) ==
  IF hits = {} THEN NotRecognized
  ELSE [instance |-> ONTOPORTAL_URL_PATTERNS[MinOf(hits)].instance,
        acronym  |-> pattern_match(ONTOPORTAL_URL_PATTERNS[MinOf(hits)].host, url)]

parse_ontoportal_url(url) ==
  first_match(Strip(url),
              {i \in DOMAIN ONTOPORTAL_URL_PATTERNS :
                 pattern_match(ONTOPORTAL_URL_PATTERNS[i].host, Strip(url)) # Null})

\* characters urllib.parse.quote(s, safe='') leaves as they are
UNRESERVED == ACRONYM_CHARS \cup {"."}

\* the percent code of the other characters of the alphabet
PercentCode(c) ==
  CASE c = " "  -> <<"%", "2", "0">>
    [] c = "\"" -> <<"%", "2", "2">>
    [] c = "#"  -> <<"%", "2", "3">>
    [] c = "/"  -> <<"%", "2", "F">>
    [] c = ":"  -> <<"%", "3", "A">>
    [] c = "<"  -> <<"%", "3", "C">>
    [] c = ">"  -> <<"%", "3", "E">>

\* urllib.parse.quote(prefix, safe='')
RECURSIVE quote(_)
quote(s) ==
  IF s = <<>> THEN <<>>
  ELSE (IF s[1] \in UNRESERVED THEN <<s[1]>> ELSE PercentCode(s[1])) \o quote(Tail(s))

\* a
PREFIX_A == <<"a">>
\* e
PREFIX_E == <<"e">>

\* the predicate f"{AIT_NS}prefix/{safe_prefix}", named as the other predicates
\* of the model are, for the prefixes of the documents below
prefix_predicate(safe_prefix) ==
  CASE safe_prefix = PREFIX_A -> "ait:prefix/a"
    [] safe_prefix = PREFIX_E -> "ait:prefix/e"
    [] OTHER -> "ait:prefix/other"

\* STRSTARTS(STR(?pred), "{AIT_NS}prefix/")
PREFIX_PREDICATES == {"ait:prefix/a", "ait:prefix/e", "ait:prefix/other"}

\* urllib.parse.unquote(pred[len(prefix_base):])
prefix_of(pred) ==
  CASE pred = "ait:prefix/a" -> PREFIX_A
    [] pred = "ait:prefix/e" -> PREFIX_E
    [] OTHER -> <<"o", "t", "h", "e", "r">>

AIT_HAS_PREFIX == "ait:hasPrefix"

\* delete_old: <ontology_uri> hasPrefix ?bnode . ?bnode ?p ?o, deleted for every
\* solution; delete_new: the prefix/ predicates of the ontology
prefixes_deleted(meta, subj) ==
  {t \in meta :
     /\ ~(t[1] = subj /\ t[2] = AIT_HAS_PREFIX /\ \E u \in meta : u[1] = t[3])
     /\ ~(<<subj, AIT_HAS_PREFIX, t[1]>> \in meta)
     /\ ~(t[1] = subj /\ t[2] \in PREFIX_PREDICATES)}

\* _store_ontology_prefixes; prefixes is a set of <<namespace, prefix>>. The
\* namespace is put into its literal escaped and the prefix into its IRI
\* quoted, so each INSERT DATA adds its triple
store_ontology_prefixes(st, ontology_uri, prefixes) ==
  IF prefixes = {} THEN st
  ELSE [st EXCEPT ![AIT_META_GRAPH] =
          prefixes_deleted(@, Iri(ontology_uri))
          \cup {<<Iri(ontology_uri), prefix_predicate(quote(p[2])), Lit(p[1])>> : p \in prefixes}]

\* the dicts a loop over rows of <<namespace, prefix>> may leave, one prefix
\* per namespace
dicts(rows) ==
  {f \in [{r[1] : r \in rows} -> {r[2] : r \in rows}] : \A n \in DOMAIN f : <<n, f[n]>> \in rows}

\* the rows of stored_query that pass "if pred and namespace and ..."
stored_prefix_rows(meta, subj) ==
  {r \in {<<Render(t[3]), prefix_of(t[2])>> :
            t \in {x \in meta : x[1] = subj /\ x[2] \in PREFIX_PREDICATES}} :
     Truthy(r[1])}

\* prefix, local_name = prefix_iri.split(":", 1), for a prefix_iri with a colon
split_once(prefix_iri) ==
  [prefix     |-> SubSeq(prefix_iri, 1, FindFrom(prefix_iri, 1, {":"}) - 1),
   local_name |-> SubSeq(prefix_iri, FindFrom(prefix_iri, 1, {":"}) + 1, Len(prefix_iri))]

EndsWith(s, p) == Len(p) <= Len(s) /\ SubSeq(s, Len(s) - Len(p) + 1, Len(s)) = p

\* the <<namespace, prefix>> a row of prefix_iri_query gives, if any
derived_of(class_uri, parts) ==
  IF parts.prefix # <<>> /\ parts.local_name # <<>> /\ EndsWith(class_uri, parts.local_name)
     /\ Len(class_uri) > Len(parts.local_name)
  THEN {<<SubSeq(class_uri, 1, Len(class_uri) - Len(parts.local_name)), parts.prefix>>}
  ELSE {}

derived_prefix_rows(g) ==
  UNION {derived_of(Render(t[1]), split_once(Render(t[3]))) :
           t \in {x \in g : x[2] = PREFIX_IRI /\ FindFrom(Render(x[3]), 1, {":"}) > 0}}

\* _get_ontology_prefixes: the stored prefixes, then the derived ones for the
\* namespaces not yet in the dict; the dicts the row orders may give
get_ontology_prefixes(st, ontology_uri) ==
  UNION {{stored @@ derived :
            derived \in dicts({r \in derived_prefix_rows(st[ontology_uri]) :
                                 r[1] \notin DOMAIN stored})}
         : stored \in dicts(stored_prefix_rows(st[AIT_META_GRAPH], Iri(ontology_uri)))}

\* label_query ... LIMIT 1 of list_ontologies, then the fallback
\* graph_uri.split("/")[-1].split("#")[-1]
ontology_labels(g, graph_uri) ==
  {OrElse(Render(l),
          Split(Split(graph_uri, "/")[Len(Split(graph_uri, "/"))], "#")
            [Len(Split(Split(graph_uri, "/")[Len(Split(graph_uri, "/"))], "#"))]) :
     l \in Optional(Objects(g, Iri(graph_uri), RDFS_LABEL))}

\* the loop over store.graphs() in one order, skipping the meta graph
ontologies_in(st, order) ==
  {[i \in DOMAIN order |-> [uri |-> order[i], label |-> labels[i],
                            triple_count |-> Cardinality(st[order[i]])]] :
     labels \in {f \in [DOMAIN order -> UNION {ontology_labels(st[u], u) : u \in Range(order)}] :
                   \A i \in DOMAIN order : f[i] \in ontology_labels(st[order[i]], order[i])}}

\* list_ontologies: the lists it may return
list_ontologies(st) ==
  UNION {ontologies_in(st, order) : order \in Orders(graphs(st) \ {AIT_META_GRAPH})}

\* GET /api/ontologies
ListOntologies ==
  /\ \E body \in list_ontologies(store) :
       response' = [kind |-> "ontologies", request |-> <<>>, body |-> body]
  /\ store' = store_query(store)

\* the DELETE WHERE of refresh_ontology: every meta triple of the ontology
meta_cleared(st, ontology_uri) ==
  [st EXCEPT ![AIT_META_GRAPH] = {t \in @ : t[1] # Iri(ontology_uri)}]

\* the store after refresh_ontology for a recognized url: the graph and the
\* meta entries are cleared first; the outcome names the step that fails,
\* or "ok" with the document parsed and its prefixes
refresh_ontology(st, ontology_uri, outcome, document, prefixes) ==
  IF outcome = "ok"
  THEN store_ontology_prefixes(
         [meta_cleared(clear(st, ontology_uri), ontology_uri)
            EXCEPT ![ontology_uri] = document],
         ontology_uri, prefixes)
  ELSE meta_cleared(clear(st, ontology_uri), ontology_uri)

RefreshFailures == {"no_api_key", "lookup_failed", "download_failed", "parse_failed"}

\* POST /api/ontologies/{ontology_uri}/refresh
RefreshOntology(ontology_uri, outcome, document, prefixes) ==
  \/ /\ parse_ontoportal_url(ontology_uri) = NotRecognized
     /\ response' = [kind |-> "refresh_failed", request |-> ontology_uri,
                     body |-> "not_recognized"]
     /\ UNCHANGED store
  \/ /\ parse_ontoportal_url(ontology_uri) # NotRecognized
     /\ store[ontology_uri] = {}
     /\ response' = [kind |-> "refresh_failed", request |-> ontology_uri,
                     body |-> "clear_raised"]
     /\ UNCHANGED store
  \/ /\ parse_ontoportal_url(ontology_uri) # NotRecognized
     /\ store' = refresh_ontology(store, ontology_uri, outcome, document, prefixes)
     /\ response' = IF outcome = "ok"
                    THEN [kind |-> "refreshed", request |-> ontology_uri,
                          body |-> Cardinality(document)]
                    ELSE [kind |-> "refresh_failed", request |-> ontology_uri,
                          body |-> outcome]

\* a:A
PREFIX_IRI_A == <<"a", ":", "A">>

\* the document the portal serves for the ontology
RefreshDocument == {IsClass(Iri(CLS_A)), <<Iri(CLS_A), PREFIX_IRI, Lit(PREFIX_IRI_A)>>}

\* the namespace bindings of the document
RefreshPrefixes == {{}, {<<NS_A, PREFIX_A>>}}

RefreshRequest ==
  \E ontology_uri \in {ONTO_M, ONTO}, outcome \in RefreshFailures \cup {"ok"},
     prefixes \in RefreshPrefixes :
    RefreshOntology(ontology_uri, outcome, RefreshDocument, prefixes)

RefreshSave ==
  \E ontology_uri \in {ONTO_M, ONTO_B}, namespaces \in {{NS_A}, {NS_CRAFTED}},
     show_deprecated \in BOOLEAN :
    SaveOntologyConfig(ontology_uri, namespaces, MODE_LABEL, show_deprecated)

RefreshLoad == LoadRdf(ONTO_B, {IsClass(Iri(CLS_E))})

RefreshGet == \E ontology_uri \in {ONTO_M, ONTO_B} : GetOntologyConfig(ontology_uri)

NextRefresh == RefreshRequest \/ RefreshSave \/ RefreshLoad \/ RefreshGet \/ ListOntologies

SpecRefresh == Init /\ [][NextRefresh]_vars

\* the meta graph triples of an ontology: its configuration and its prefixes
MetaEntries(st, ontology_uri) == {t \in st[AIT_META_GRAPH] : t[1] = Iri(ontology_uri)}

\* C29: a refresh that fails leaves the graph of the ontology and its meta
\* graph entries as they were before the call
C29_RefreshAllOrNothing ==
  [][response'.kind = "refresh_failed" =>
       /\ store'[response'.request] = store[response'.request]
       /\ MetaEntries(store', response'.request) = MetaEntries(store, response'.request)]_vars

\* C30: a save for one ontology leaves the configuration read for every other
\* ontology, the prefixes read for the saved ontology and every ontology graph
\* as they were, and the meta graph is never an entry of the list of ontologies
C30_ConfigIsolation ==
  [][/\ response'.kind \in {"config", "error"} =>
          /\ \A other \in {ONTO, ONTO_B, ONTO_M} \ {response'.request} :
               get_ontology_config(store', other) = get_ontology_config(store, other)
          /\ get_ontology_prefixes(store', response'.request)
               = get_ontology_prefixes(store, response'.request)
          /\ \A g \in DOMAIN store \ {AIT_META_GRAPH} : store'[g] = store[g]
     /\ response'.kind = "ontologies" =>
          \A i \in DOMAIN response'.body : response'.body[i].uri # AIT_META_GRAPH]_vars

====
